---- MODULE Spec2Model ----
(***************************************************************************)
(* Model of the knowledge synchronisation engine of the narrative          *)
(* authoring backend: the knowledge graph and its editor                   *)
(* (graph_editor.py), the index sync manager (index_sync.py), the graph    *)
(* extractor (graph_extractor.py), the sync queue (sync_strategy.py), the  *)
(* token budget of the retriever (graph_retriever.py) and the version      *)
(* manager (version_manager.py, version_storage.py).                       *)
(*                                                                         *)
(* Texts are sequences of one-character strings.  Lists the code only      *)
(* reads through membership, emptiness, filtering and union (aliases,      *)
(* source_refs) are sets; lists whose order the code depends on (entities, *)
(* relations, update payloads, results) are sequences.                     *)
(***************************************************************************)
EXTENDS Integers, Sequences, FiniteSets, TLC

\* Python's None
None == [none |-> TRUE]

Range(s) == {s[i] : i \in 1..Len(s)}

(***************************************************************************)
(* Texts                                                                   *)
(***************************************************************************)
\* str.lower() on the model's alphabet
LowerChar(c) == IF c = "A" THEN "a" ELSE IF c = "B" THEN "b" ELSE c

Lower(t) == [i \in 1..Len(t) |-> LowerChar(t[i])]

\* Python's `needle in haystack` on strings
Contains(haystack, needle) ==
  \E i \in 0..(Len(haystack) - Len(needle)) :
    \A k \in 1..Len(needle) : haystack[i + k] = needle[k]

IsSpace(c) == c = " " \/ c = "\n"

RECURSIVE LStrip(_)
LStrip(t) == IF t # <<>> /\ IsSpace(Head(t)) THEN LStrip(Tail(t)) ELSE t

RECURSIVE RStrip(_)
RStrip(t) ==
  IF t # <<>> /\ IsSpace(t[Len(t)]) THEN RStrip(SubSeq(t, 1, Len(t) - 1)) ELSE t

Strip(t) == RStrip(LStrip(t))

\* IndexSyncManager._node_text: the non-empty stripped parts joined by "\n\n"
node_text(node) ==
  LET title == Strip(node.title)
      content == Strip(node.content)
  IN IF title = <<>> THEN content
     ELSE IF content = <<>> THEN title
     ELSE title \o <<"\n", "\n">> \o content

\* GraphExtractor.extract_from_node: "\n".join([title, content]).strip()
extract_text(node) == Strip(node.title \o <<"\n">> \o node.content)

(***************************************************************************)
(* difflib.SequenceMatcher(None, a, b).ratio(), as 2*M/T with M the total  *)
(* size of the matching blocks found by recursive longest-match splitting. *)
(* Positions are 1-based, ranges are [lo, hi).                             *)
(***************************************************************************)
RECURSIVE RunLen(_, _, _, _, _, _)
RunLen(a, i, ahi, b, j, bhi) ==
  IF i < ahi /\ j < bhi /\ a[i] = b[j]
  THEN 1 + RunLen(a, i + 1, ahi, b, j + 1, bhi)
  ELSE 0

\* find_longest_match: the longest block, earliest in a, then earliest in b
find_longest_match(a, alo, ahi, b, blo, bhi) ==
  LET run == [c \in (alo..(ahi - 1)) \X (blo..(bhi - 1)) |->
                RunLen(a, c[1], ahi, b, c[2], bhi)]
      k == CHOOSE n \in 0..(ahi - alo) :
             /\ \A c \in DOMAIN run : run[c] <= n
             /\ n = 0 \/ \E c \in DOMAIN run : run[c] = n
  IN IF k = 0 THEN <<alo, blo, 0>>
     ELSE LET i == CHOOSE x \in alo..(ahi - 1) :
                     /\ \E y \in blo..(bhi - 1) : run[<<x, y>>] = k
                     /\ \A w \in alo..(x - 1) : \A y \in blo..(bhi - 1) : run[<<w, y>>] < k
              j == CHOOSE y \in blo..(bhi - 1) :
                     /\ run[<<i, y>>] = k
                     /\ \A z \in blo..(y - 1) : run[<<i, z>>] < k
          IN <<i, j, k>>

RECURSIVE matching_total(_, _, _, _, _, _)
matching_total(a, alo, ahi, b, blo, bhi) ==
  IF alo >= ahi \/ blo >= bhi THEN 0
  ELSE LET m == find_longest_match(a, alo, ahi, b, blo, bhi)
       IN IF m[3] = 0 THEN 0
          ELSE m[3]
               + matching_total(a, alo, m[1], b, blo, m[2])
               + matching_total(a, m[1] + m[3], ahi, b, m[2] + m[3], bhi)

\* ratio() > 0.95, i.e. 2*M/T > 95/100 (T = 0 gives ratio 1.0)
similarity_above_threshold(old_text, new_text) ==
  LET T == Len(old_text) + Len(new_text)
      M == matching_total(old_text, 1, Len(old_text) + 1, new_text, 1, Len(new_text) + 1)
  IN IF T = 0 THEN TRUE ELSE 200 * M > 95 * T

(***************************************************************************)
(* Knowledge graph (knowledge_graph.py)                                    *)
(***************************************************************************)
EntityTypes == {"character", "location", "item", "event", "organization", "concept"}

Entity(id, name, type, description, aliases, properties, source_refs) ==
  [id |-> id, name |-> name, type |-> type, description |-> description,
   aliases |-> aliases, properties |-> properties, source_refs |-> source_refs]

Relation(id, source_id, target_id, relation_type, relation_name, description, strength, source_refs) ==
  [id |-> id, source_id |-> source_id, target_id |-> target_id,
   relation_type |-> relation_type, relation_name |-> relation_name,
   description |-> description, strength |-> strength, source_refs |-> source_refs]

KnowledgeGraph(project_id, entities, relations, last_updated) ==
  [project_id |-> project_id, entities |-> entities, relations |-> relations,
   last_updated |-> last_updated]

\* load_graph when no file exists: the empty graph stamped with the current time
empty_graph(project_id, t) == KnowledgeGraph(project_id, <<>>, <<>>, t)

\* save_graph: stamps last_updated with the current time and writes the graph
save_graph(g, t) == [g EXCEPT !.last_updated = t]

EntityIdsOf(g) == {g.entities[i].id : i \in 1..Len(g.entities)}

RelationIdsOf(g) == {g.relations[i].id : i \in 1..Len(g.relations)}

(***************************************************************************)
(* Graph editor (graph_editor.py).  An operation returns                   *)
(* [ok, graph, value]; ok = FALSE is the raised ValueError, whose message  *)
(* is the value.                                                           *)
(***************************************************************************)
\* GraphEditor._find_entity: index of the first entity with the id, 0 if none
find_entity(g, entity_id) ==
  IF \E i \in 1..Len(g.entities) : g.entities[i].id = entity_id
  THEN CHOOSE i \in 1..Len(g.entities) :
         /\ g.entities[i].id = entity_id
         /\ \A j \in 1..(i - 1) : g.entities[j].id # entity_id
  ELSE 0

\* the except branch of every editor operation: entities, relations and
\* last_updated are reassigned from the deep copy taken on entry
rollback(g, snapshot) ==
  [g EXCEPT !.entities = snapshot.entities, !.relations = snapshot.relations,
            !.last_updated = snapshot.last_updated]

\* GraphEditor._touch_graph
touch_graph(g, t) == [g EXCEPT !.last_updated = t]

AllowedFields == {"name", "type", "description", "aliases", "properties", "source_refs"}

\* One payload value is [shape, val]; the shapes are the Python types the
\* validation tells apart.
value_ok(key, value) ==
  CASE key = "type" ->
         \/ value.shape = "enum"
         \/ value.shape = "str" /\ value.val \in EntityTypes
    [] key \in {"aliases", "source_refs"} -> value.shape = "list_str"
    [] key = "properties" -> value.shape = "dict"
    [] key \in {"name", "description"} -> value.shape = "str"
    [] OTHER -> FALSE

\* GraphEditor._normalize_entity_updates: the payload's items in order; the
\* first unsupported key or malformed value raises.  Returns [ok, items].
item_ok(item) == item.key \in AllowedFields /\ value_ok(item.key, item.value)

normalize_entity_updates(updates) ==
  IF \E i \in 1..Len(updates) : ~item_ok(updates[i])
  THEN LET bad == updates[CHOOSE i \in 1..Len(updates) :
                            ~item_ok(updates[i]) /\ \A j \in 1..(i - 1) : item_ok(updates[j])]
       IN [ok |-> FALSE, items |-> <<>>,
           error |-> IF bad.key \notin AllowedFields THEN "Unsupported field"
                     ELSE "Invalid value"]
  ELSE [ok |-> TRUE, items |-> updates, error |-> ""]

\* setattr(entity, key, value)
set_field(e, key, val) ==
  CASE key = "name" -> [e EXCEPT !.name = val]
    [] key = "type" -> [e EXCEPT !.type = val]
    [] key = "description" -> [e EXCEPT !.description = val]
    [] key = "aliases" -> [e EXCEPT !.aliases = val]
    [] key = "properties" -> [e EXCEPT !.properties = val]
    [] key = "source_refs" -> [e EXCEPT !.source_refs = val]
    [] OTHER -> e

RECURSIVE apply_updates(_, _)
apply_updates(e, items) ==
  IF items = <<>> THEN e
  ELSE apply_updates(set_field(e, Head(items).key, Head(items).value.val), Tail(items))

\* a variant of update_entity that sets the payload's fields one by one as it
\* validates them and restores nothing when it raises
update_entity_partial(g, entity_id, updates, t) ==
  LET idx == find_entity(g, entity_id)
      norm == normalize_entity_updates(updates)
      bad == CHOOSE i \in 1..(Len(updates) + 1) :
               /\ i <= Len(updates) => ~item_ok(updates[i])
               /\ \A j \in 1..(i - 1) : item_ok(updates[j])
      e == apply_updates(g.entities[idx], SubSeq(updates, 1, bad - 1))
  IN IF idx = 0
     THEN [ok |-> FALSE, graph |-> g, value |-> "Entity not found"]
     ELSE [ok |-> norm.ok,
           graph |-> touch_graph([g EXCEPT !.entities[idx] = e], t),
           value |-> IF norm.ok THEN e ELSE norm.error]

\* GraphEditor.update_entity
update_entity(g, entity_id, updates, t) ==
  LET snapshot == g
      idx == find_entity(g, entity_id)
      norm == normalize_entity_updates(updates)
  IN IF idx = 0
     THEN [ok |-> FALSE, graph |-> rollback(g, snapshot), value |-> "Entity not found"]
     ELSE IF ~norm.ok
     THEN [ok |-> FALSE, graph |-> rollback(g, snapshot), value |-> norm.error]
     ELSE LET e == apply_updates(g.entities[idx], norm.items)
          IN [ok |-> TRUE,
              graph |-> touch_graph([g EXCEPT !.entities[idx] = e], t),
              value |-> e]

\* a variant of delete_entity that cascades to the relations leaving the
\* entity only
delete_entity_outgoing(g, entity_id, t) ==
  LET idx == find_entity(g, entity_id)
      rels == SelectSeq(g.relations, LAMBDA r : r.source_id # entity_id)
      ents == SelectSeq(g.entities, LAMBDA e : e.id # entity_id)
  IN IF idx = 0
     THEN [ok |-> FALSE, graph |-> g, value |-> "Entity not found"]
     ELSE [ok |-> TRUE,
           graph |-> touch_graph([g EXCEPT !.relations = rels, !.entities = ents], t),
           value |-> Len(g.relations) - Len(rels)]

\* GraphEditor.delete_entity
delete_entity(g, entity_id, t) ==
  LET snapshot == g
      idx == find_entity(g, entity_id)
  IN IF idx = 0
     THEN [ok |-> FALSE, graph |-> rollback(g, snapshot), value |-> "Entity not found"]
     ELSE LET rels == SelectSeq(g.relations,
                        LAMBDA r : r.source_id # entity_id /\ r.target_id # entity_id)
              ents == SelectSeq(g.entities, LAMBDA e : e.id # entity_id)
          IN [ok |-> TRUE,
              graph |-> touch_graph([g EXCEPT !.relations = rels, !.entities = ents], t),
              value |-> Len(g.relations) - Len(rels)]

\* GraphEditor._relation_score
relation_score(r) == r.strength * 1000 + Len(r.description)

\* a pick that lets the later relation win a tie
pick_relation_last_on_tie(first, second) ==
  IF relation_score(second) >= relation_score(first) THEN second ELSE first

\* GraphEditor._pick_relation
pick_relation(first, second) ==
  IF relation_score(second) > relation_score(first) THEN second ELSE first

\* the entity ids of the model, in Python's string order
EntityIdPool == <<"e1", "e2", "e3">>

EntityIds == Range(EntityIdPool)

IdRank(id) == CHOOSE i \in 1..Len(EntityIdPool) : EntityIdPool[i] = id

\* the dedupe key: the sorted endpoint pair, the type and the name
relation_key(r) ==
  <<IF IdRank(r.source_id) <= IdRank(r.target_id) THEN r.source_id ELSE r.target_id,
    IF IdRank(r.source_id) <= IdRank(r.target_id) THEN r.target_id ELSE r.source_id,
    r.relation_type, r.relation_name>>

\* GraphEditor._dedupe_relations: one relation per key, in the order the keys
\* are first seen, each key holding the pick over its relations in list order
RECURSIVE dedupe_fold(_, _)
dedupe_fold(unique, rest) ==
  IF rest = <<>> THEN unique
  ELSE LET r == Head(rest)
           hit == {i \in 1..Len(unique) : relation_key(unique[i]) = relation_key(r)}
       IN IF hit = {}
          THEN dedupe_fold(Append(unique, r), Tail(rest))
          ELSE LET i == CHOOSE k \in hit : TRUE
               IN dedupe_fold([unique EXCEPT ![i] = pick_relation(unique[i], r)],
                              Tail(rest))

dedupe_relations(relations) == dedupe_fold(<<>>, relations)

\* a variant of the alias merge that forgets the source's aliases
merged_aliases_name_only(source, target) ==
  (target.aliases \cup {source.name}) \ {target.name}

\* the alias set merge_entities gives the target
merged_aliases(source, target) ==
  ((target.aliases \cup {source.name}) \cup source.aliases) \ {target.name}

\* redirect of one relation's endpoints from the source entity to the target
redirect(r, from_id, into_id) ==
  [r EXCEPT !.source_id = IF r.source_id = from_id THEN into_id ELSE r.source_id,
            !.target_id = IF r.target_id = from_id THEN into_id ELSE r.target_id]

\* GraphEditor.merge_entities
merge_entities(g, from_id, into_id, t) ==
  LET snapshot == g
      si == find_entity(g, from_id)
      ti == find_entity(g, into_id)
  IN IF from_id = into_id
     THEN [ok |-> FALSE, graph |-> rollback(g, snapshot),
           value |-> "Cannot merge entity into itself"]
     ELSE IF si = 0 \/ ti = 0
     THEN [ok |-> FALSE, graph |-> rollback(g, snapshot), value |-> "Entity not found"]
     ELSE LET source == g.entities[si]
              target == [g.entities[ti] EXCEPT
                           !.aliases = merged_aliases(source, g.entities[ti]),
                           !.source_refs = g.entities[ti].source_refs \cup source.source_refs]
              rels == [i \in 1..Len(g.relations) |->
                         redirect(g.relations[i], source.id, target.id)]
              ents == SelectSeq([g.entities EXCEPT ![ti] = target],
                                LAMBDA e : e.id # source.id)
          IN [ok |-> TRUE,
              graph |-> touch_graph([g EXCEPT !.entities = ents,
                                              !.relations = dedupe_relations(rels)], t),
              value |-> target]

(***************************************************************************)
(* Graph extractor (graph_extractor.py).  The oracle's answer is an input: *)
(* OracleFail (llm.invoke raises) or [new_entities, new_relations], where an   *)
(* id of "" stands for a missing id.                                       *)
(***************************************************************************)
\* the oracle call raising
OracleFail == [fail |-> TRUE]

ExtractionResult(new_entities, new_relations) ==
  [new_entities |-> new_entities, new_relations |-> new_relations]

\* _ensure_entity_ids / _ensure_relation_ids: a missing id becomes the uuid4
\* drawn for that position
ensure_ids(items, uuids) ==
  [i \in 1..Len(items) |->
     IF items[i].id = "" THEN [items[i] EXCEPT !.id = uuids[i]] ELSE items[i]]

\* GraphExtractor.extract_from_text: [ok, result]; no oracle call for blank
\* text or a missing credential
extract_from_text(text, has_api_key, answer, entity_uuids, relation_uuids) ==
  IF Strip(text) = <<>> \/ ~has_api_key
  THEN [ok |-> TRUE, result |-> ExtractionResult(<<>>, <<>>)]
  ELSE IF answer = OracleFail
  THEN [ok |-> FALSE, result |-> ExtractionResult(<<>>, <<>>)]
  ELSE [ok |-> TRUE,
        result |-> ExtractionResult(ensure_ids(answer.new_entities, entity_uuids),
                                    ensure_ids(answer.new_relations, relation_uuids))]

\* stamping of source_refs with the originating node id
stamp(items, node_id) ==
  [i \in 1..Len(items) |->
     [items[i] EXCEPT !.source_refs = items[i].source_refs \cup {node_id}]]

\* GraphExtractor.extract_from_node
extract_from_node(node, has_api_key, answer, entity_uuids, relation_uuids) ==
  LET r == extract_from_text(extract_text(node), has_api_key, answer,
                             entity_uuids, relation_uuids)
  IN IF ~r.ok THEN r
     ELSE [ok |-> TRUE,
           result |-> ExtractionResult(stamp(r.result.new_entities, node.id),
                                       stamp(r.result.new_relations, node.id))]

\* GraphExtractor.incremental_update: [ok, graph]
incremental_update(project_id, modified_node, current_graph, has_api_key, answer, entity_uuids, relation_uuids, t) ==
  LET r == extract_from_node(modified_node, has_api_key, answer,
                             entity_uuids, relation_uuids)
  IN IF ~r.ok THEN [ok |-> FALSE, graph |-> current_graph]
     ELSE [ok |-> TRUE,
           graph |-> KnowledgeGraph(project_id,
                                    current_graph.entities \o r.result.new_entities,
                                    current_graph.relations \o r.result.new_relations,
                                    t)]

(***************************************************************************)
(* Index sync manager (index_sync.py)                                      *)
(***************************************************************************)
SyncResult(success, vector_updated, graph_updated, new_entities, new_relations, removed_entities, removed_relations) ==
  [success |-> success, vector_updated |-> vector_updated,
   graph_updated |-> graph_updated, new_entities |-> new_entities,
   new_relations |-> new_relations, removed_entities |-> removed_entities,
   removed_relations |-> removed_relations]

\* {item.id: item for item in items}: one entry per id in first-seen order,
\* holding the last item with that id
RECURSIVE dict_by_id(_, _)
dict_by_id(acc, items) ==
  IF items = <<>> THEN acc
  ELSE LET x == Head(items)
           hit == {i \in 1..Len(acc) : acc[i].id = x.id}
       IN IF hit = {} THEN dict_by_id(Append(acc, x), Tail(items))
          ELSE dict_by_id([acc EXCEPT ![CHOOSE k \in hit : TRUE] = x], Tail(items))

IdsOfSeq(items) == {items[i].id : i \in 1..Len(items)}

IdSeq(items) == [i \in 1..Len(items) |-> items[i].id]

\* a diff that reports every entity and relation of the later graph as new
diff_graphs_all_after(before, after) ==
  LET be == dict_by_id(<<>>, before.entities)
      ae == dict_by_id(<<>>, after.entities)
      br == dict_by_id(<<>>, before.relations)
      ar == dict_by_id(<<>>, after.relations)
  IN [new_entities |-> ae,
      new_relations |-> ar,
      removed_entities |-> IdSeq(SelectSeq(be, LAMBDA e : e.id \notin IdsOfSeq(ae))),
      removed_relations |-> IdSeq(SelectSeq(br, LAMBDA r : r.id \notin IdsOfSeq(ar)))]

\* IndexSyncManager._diff_graphs
diff_graphs(before, after) ==
  LET be == dict_by_id(<<>>, before.entities)
      ae == dict_by_id(<<>>, after.entities)
      br == dict_by_id(<<>>, before.relations)
      ar == dict_by_id(<<>>, after.relations)
  IN [new_entities |-> SelectSeq(ae, LAMBDA e : e.id \notin IdsOfSeq(be)),
      new_relations |-> SelectSeq(ar, LAMBDA r : r.id \notin IdsOfSeq(br)),
      removed_entities |-> IdSeq(SelectSeq(be, LAMBDA e : e.id \notin IdsOfSeq(ae))),
      removed_relations |-> IdSeq(SelectSeq(br, LAMBDA r : r.id \notin IdsOfSeq(ar)))]

\* IndexSyncManager._extract_entity_mentions
extract_entity_mentions(text, g) ==
  {g.entities[i].id : i \in {k \in 1..Len(g.entities) :
      \/ Contains(Lower(text), Lower(g.entities[k].name))
      \/ \E al \in g.entities[k].aliases : Contains(Lower(text), Lower(al))}}

\* the ids whose mention disappeared between the old and the new content
mention_removed(old_node, new_node, g) ==
  IF old_node = None THEN {}
  ELSE extract_entity_mentions(old_node.content, g)
         \ extract_entity_mentions(new_node.content, g)

\* the orders in which a set may be iterated
Orders(S) == {q \in [1..Cardinality(S) -> S] : \A x \in S : \E i \in DOMAIN q : q[i] = x}

\* a test that skips every edit of a node that existed before
insignificant_whenever_old(old_node, new_node) == old_node # None

\* whether the edit is skipped as insignificant
insignificant(old_node, new_node) ==
  /\ old_node # None
  /\ similarity_above_threshold(node_text(old_node), node_text(new_node))

\* IndexSyncManager.sync_node_update: [ok, graph, result].  index_ok = FALSE is
\* the search index raising; order is the iteration order of the set of
\* mention-removed ids.
sync_node_update(project_id, old_node, new_node, current_graph, index_ok, has_api_key, answer, entity_uuids, relation_uuids, order, t) ==
  IF ~index_ok THEN [ok |-> FALSE, graph |-> current_graph, result |-> "index error"]
  ELSE IF insignificant(old_node, new_node)
  THEN [ok |-> TRUE, graph |-> current_graph,
        result |-> SyncResult(TRUE, TRUE, FALSE, <<>>, <<>>, <<>>, <<>>)]
  ELSE LET up == incremental_update(project_id, new_node, current_graph, has_api_key, answer, entity_uuids, relation_uuids, t)
       IN IF ~up.ok THEN [ok |-> FALSE, graph |-> current_graph, result |-> "oracle error"]
          ELSE LET diff == diff_graphs(current_graph, up.graph)
                   extra == SelectSeq(order, LAMBDA id : id \notin Range(diff.removed_entities))
               IN [ok |-> TRUE,
                   graph |-> [current_graph EXCEPT !.entities = up.graph.entities,
                                                   !.relations = up.graph.relations,
                                                   !.last_updated = up.graph.last_updated],
                   result |-> SyncResult(TRUE, TRUE, TRUE, diff.new_entities,
                                         diff.new_relations,
                                         diff.removed_entities \o extra,
                                         diff.removed_relations)]

\* the loop of sync_node_delete over a copy of the list: item i has the node
\* id stripped from its source_refs in place and, left with none, is removed
\* with list.remove (the first equal element)
RECURSIVE strip_refs(_, _, _, _)
strip_refs(items, removed, i, node_id) ==
  IF i > Len(items) THEN [items |-> SelectSeq(items, LAMBDA x : x.present), removed |-> removed]
  ELSE IF node_id \notin items[i].val.source_refs
  THEN strip_refs(items, removed, i + 1, node_id)
  ELSE LET v == [items[i].val EXCEPT !.source_refs = @ \ {node_id}]
           marked == [items EXCEPT ![i].val = v]
       IN IF v.source_refs # {}
          THEN strip_refs(marked, removed, i + 1, node_id)
          ELSE LET k == CHOOSE j \in 1..i :
                          /\ marked[j].present /\ marked[j].val = v
                          /\ \A h \in 1..(j - 1) : ~(marked[h].present /\ marked[h].val = v)
               IN strip_refs([marked EXCEPT ![k].present = FALSE],
                             Append(removed, v.id), i + 1, node_id)

strip_node(items, node_id) ==
  LET r == strip_refs([i \in 1..Len(items) |-> [val |-> items[i], present |-> TRUE]],
                      <<>>, 1, node_id)
  IN [items |-> [i \in 1..Len(r.items) |-> r.items[i].val], removed |-> r.removed]

\* a variant of sync_node_delete that drops every entity and relation the
\* node is a source of, whatever other sources they have
sync_node_delete_all(project_id, node_id, current_graph, index_ok) ==
  LET es == SelectSeq(current_graph.entities, LAMBDA e : node_id \notin e.source_refs)
      rs == SelectSeq(current_graph.relations, LAMBDA r : node_id \notin r.source_refs)
  IN [ok |-> index_ok,
      graph |-> [current_graph EXCEPT !.entities = es, !.relations = rs],
      result |-> IF index_ok THEN SyncResult(TRUE, TRUE, TRUE, <<>>, <<>>, <<>>, <<>>)
                 ELSE "index error"]

\* IndexSyncManager.sync_node_delete: [ok, graph, result]
sync_node_delete(project_id, node_id, current_graph, index_ok) ==
  IF ~index_ok THEN [ok |-> FALSE, graph |-> current_graph, result |-> "index error"]
  ELSE LET es == strip_node(current_graph.entities, node_id)
           rs == strip_node(current_graph.relations, node_id)
       IN [ok |-> TRUE,
           graph |-> [current_graph EXCEPT !.entities = es.items, !.relations = rs.items],
           result |-> SyncResult(TRUE, TRUE, TRUE, <<>>, <<>>, es.removed, rs.removed)]

(***************************************************************************)
(* Inputs                                                                  *)
(***************************************************************************)
MaxClock == 2

Projects == {"p1", "p2"}

NodeIds == {"n1", "n2"}

RelationIdPool == <<"r1", "r2">>

Contents == {<<"a">>, <<"B">>}

StoryNode(id, title, content) == [id |-> id, title |-> title, content |-> content]

StoryNodes == {StoryNode(id, <<"t">>, c) : id \in NodeIds, c \in Contents}

\* uuid4(): an id not in use; the pool is listed in IdOrder
fresh_id(pool, used) ==
  IF Range(pool) \subseteq used THEN ""
  ELSE pool[CHOOSE i \in 1..Len(pool) :
              pool[i] \notin used /\ \A j \in 1..(i - 1) : pool[j] \in used]

\* the shapes of relation the oracle answers with
RelationShapes ==
  {[relation_type |-> "friend", description |-> <<>>, strength |-> 0],
   [relation_type |-> "friend", description |-> <<"d">>, strength |-> 0],
   [relation_type |-> "friend", description |-> <<>>, strength |-> 1],
   [relation_type |-> "enemy", description |-> <<>>, strength |-> 0]}

OracleEntities(id) ==
  {Entity(id, <<"a">>, "character", <<>>, {}, "props0", {}),
   Entity(id, <<"b">>, "location", <<>>, {<<"c">>}, "props0", {})}

OracleRelations(ends) ==
  {Relation("", ab[1], ab[2], sh.relation_type, <<"x">>, sh.description, sh.strength, {}) :
     ab \in {p \in ends \X ends : p[1] # p[2]}, sh \in RelationShapes}

\* The answers of the oracle for a graph: a failure, nothing, one entity
\* without an id, one relation between two entities of the graph, or one
\* entity under an id of the oracle's own (not in the graph) with a plain
\* relation between it and an entity of the graph.  Relation ids are left to
\* uuid4.
OracleAnswers(g) ==
  LET ids == EntityIdsOf(g)
      own == fresh_id(EntityIdPool, ids)
  IN {OracleFail, ExtractionResult(<<>>, <<>>)}
       \cup {ExtractionResult(<<e>>, <<>>) : e \in OracleEntities("")}
       \cup {ExtractionResult(<<>>, <<r>>) : r \in OracleRelations(ids)}
       \cup {ExtractionResult(<<e>>, <<r>>) :
               e \in OracleEntities(own),
               r \in {x \in OracleRelations(ids \cup {own}) :
                        /\ own \in {x.source_id, x.target_id}
                        /\ x.relation_type = "friend"
                        /\ x.description = <<>> /\ x.strength = 0}}

\* entity update payloads: items in dict order
Item(key, shape, val) == [key |-> key, value |-> [shape |-> shape, val |-> val]]

UpdatePayloads ==
  {<<Item("source_refs", "list_str", {})>>,
   <<Item("aliases", "list_str", {<<"a">>})>>,
   <<Item("type", "str", "bogus")>>,
   <<Item("aliases", "str", <<"a">>)>>,
   <<Item("description", "str", <<"d">>), Item("id", "str", <<"z">>)>>}

(***************************************************************************)
(* Python dicts whose iteration order the code uses: a sequence of         *)
(* [k, v] entries in insertion order.                                      *)
(***************************************************************************)
dict_keys(d) == [i \in 1..Len(d) |-> d[i].k]

dict_has(d, k) == \E i \in 1..Len(d) : d[i].k = k

dict_get(d, k, default) ==
  IF dict_has(d, k) THEN d[CHOOSE i \in 1..Len(d) : d[i].k = k].v ELSE default

\* d[k] = v: in place for a key already there, appended otherwise
dict_set(d, k, v) ==
  IF dict_has(d, k)
  THEN [i \in 1..Len(d) |-> IF d[i].k = k THEN [k |-> k, v |-> v] ELSE d[i]]
  ELSE Append(d, [k |-> k, v |-> v])

\* d.pop(k, None)
dict_pop(d, k) == SelectSeq(d, LAMBDA e : e.k # k)

(***************************************************************************)
(* Sync queue inputs (sync_strategy.py)                                    *)
(***************************************************************************)
MaxTime == 1

SyncModes == {"immediate", "debounced", "batch", "manual"}

\* the SyncConfig instances a queue is built with
SyncConfig(graph_sync_mode, debounce_seconds, batch_size, batch_timeout_seconds) ==
  [graph_sync_mode |-> graph_sync_mode, debounce_seconds |-> debounce_seconds,
   batch_size |-> batch_size, batch_timeout_seconds |-> batch_timeout_seconds]

SyncConfigs == {SyncConfig(m, 1, 2, 1) : m \in SyncModes \ {"immediate"}}

\* the edits handed to enqueue, each at most once: project, node id, content,
\* and whether the call passes an old node (of content "a")
Edits ==
  {<<"p1", "n1", <<"a">>, FALSE>>, <<"p1", "n1", <<"B">>, TRUE>>,
   <<"p1", "n2", <<"a">>, FALSE>>, <<"p2", "n1", <<"a">>, TRUE>>}

QueueAnswers ==
  {OracleFail, ExtractionResult(<<>>, <<>>),
   ExtractionResult(<<Entity("", <<"a">>, "character", <<>>, {}, "props0", {})>>, <<>>)}

(***************************************************************************)
(* State                                                                   *)
(***************************************************************************)
VARIABLES
  stored,              \* the persisted graph of each project, None while no file exists
  now,                 \* the clock read by datetime.utcnow()
  mem,                 \* the graph object the last operation worked on, as it left it
  last,                \* the last completed operation: its name, arguments and outcome
  config,              \* SyncQueue.config
  pending_updates,     \* SyncQueue.pending_updates: project -> node id -> node
  pending_old_nodes,   \* SyncQueue.pending_old_nodes: project -> node id -> node or None
  last_update_time,    \* SyncQueue.last_update_time: project -> node id -> time
  run,                 \* the process_ready or flush call holding SyncQueue._lock (its
                       \* locals, suspended at its await), None while the lock is free
  ret,                 \* the call that has just returned or raised, None otherwise
  enqueued,            \* the edits already handed to enqueue
  context,             \* a retrieve_context call: its candidates, its budget and the
                       \* RetrievalContext it returned (None until it returns); None
                       \* while no call is made
  snapshots,           \* VersionStorage: project -> version -> the snapshot stored
                       \* (its file and its index row)
  versioning_config,   \* VersionManager._config
  assigned,            \* project -> the versions create_snapshot has assigned so far
  vlast,               \* the last completed step of the version manager
  loop,                \* the position of the auto_snapshot_loop task
  db,                  \* the nodes of the project p1 in the database, None while no
                       \* handler of main.py that reads them is modelled
  indexed,             \* the node ids of p1 held by the search index
  inflight,            \* the requests of main.py in flight, each with its position
                       \* and its locals
  hlast,               \* the last completed call of a handler or of the conflict
                       \* detector: its name, arguments and outcome
  disk                 \* the version storage of p1 piece by piece: its temporary
                       \* files, its snapshot files and its index rows; None while
                       \* the storage is modelled by `snapshots`

vars == <<stored, now, mem, last, config, pending_updates, pending_old_nodes, last_update_time, run, ret, enqueued, context, snapshots, versioning_config, assigned, vlast, loop, db, indexed, inflight, hlast, disk>>

NoOp == [op |-> "none", ok |-> TRUE, args |-> None, result |-> None, error |-> ""]

graph_vars == <<mem, last>>

queue_vars == <<config, pending_updates, pending_old_nodes, last_update_time, run, ret, enqueued>>

retriever_vars == <<context>>

\* the state of the components an operation of another component never touches
version_vars == <<snapshots, versioning_config, assigned, vlast, loop>>

handler_vars == <<db, indexed, inflight, hlast, disk>>

other_vars == <<retriever_vars, version_vars, handler_vars>>

HandlersIdle ==
  /\ db = None
  /\ indexed = {}
  /\ inflight = None
  /\ hlast = NoOp
  /\ disk = None

OtherIdle ==
  /\ context = None
  /\ snapshots = [p \in Projects |-> <<>>]
  /\ versioning_config = None
  /\ assigned = [p \in Projects |-> {}]
  /\ vlast = NoOp
  /\ loop = "sleeping"
  /\ HandlersIdle

\* knowledge_graph.load_graph
load_graph(project_id) ==
  IF stored[project_id] = None THEN empty_graph(project_id, now) ELSE stored[project_id]

(***************************************************************************)
(* The graph of one project under the request handlers of main.py and the  *)
(* sync manager's operations, each run to completion.                      *)
(***************************************************************************)
\* The graph files the handlers start from: none, or the graph left on disk by
\* sync_node_update(n1) and sync_node_update(n2) extracting two entities named
\* "a", merge_entities of the first into the second, sync_node_update(n1)
\* extracting the entity "b" and sync_node_update(n2) extracting a relation.
StoredGraph ==
  KnowledgeGraph("p1",
                 <<Entity("e2", <<"a">>, "character", <<>>, {}, "props0", {"n1", "n2"}),
                   Entity("e1", <<"b">>, "location", <<>>, {<<"c">>}, "props0", {"n1"})>>,
                 <<Relation("r1", "e1", "e2", "friend", <<"x">>, <<>>, 0, {"n2"})>>,
                 0)

InitGraph ==
  /\ stored \in {[p \in Projects |-> None],
                 [p \in Projects |-> IF p = "p1" THEN StoredGraph ELSE None]}
  /\ now = 0
  /\ mem = None
  /\ last = NoOp
  /\ config = SyncConfig("debounced", 5, 10, 60)
  /\ pending_updates = <<>>
  /\ pending_old_nodes = <<>>
  /\ last_update_time = <<>>
  /\ run = None
  /\ ret = None
  /\ enqueued = {}
  /\ OtherIdle

\* the end of a handler: the graph is saved unless the operation raised
Done(op, args, r) ==
  /\ last' = [op |-> op, ok |-> r.ok,
              args |-> IF r.ok \/ op = "delete_entity" THEN args ELSE None,
              result |-> IF ~r.ok THEN None
                         ELSE IF op \in {"sync_node_update", "sync_node_delete"}
                         THEN r.result ELSE r.value,
              error |-> IF r.ok THEN ""
                        ELSE IF op \in {"sync_node_update", "sync_node_delete"}
                        THEN r.result ELSE r.value]
  /\ mem' = r.graph
  /\ stored' = IF r.ok THEN [stored EXCEPT !["p1"] = save_graph(r.graph, now + 1)]
               ELSE stored
  /\ now' = now + 1
  /\ UNCHANGED <<queue_vars, other_vars>>

\* sync_node in immediate graph mode: load_graph, sync_node_update, save_graph
SyncNodeUpdate ==
  /\ now < MaxClock
  /\ LET g == load_graph("p1")
         eu == <<fresh_id(EntityIdPool, EntityIdsOf(g))>>
         ru == <<fresh_id(RelationIdPool, RelationIdsOf(g))>>
     IN \E answer \in OracleAnswers(g), index_ok \in BOOLEAN, has_api_key \in BOOLEAN :
          /\ ~index_ok => answer = OracleFail /\ has_api_key
          /\ ~has_api_key => answer = ExtractionResult(<<>>, <<>>)
          /\ answer # OracleFail =>
               /\ Len(answer.new_entities) > 0 => eu # <<"">>
               /\ Len(answer.new_relations) > 0 => ru # <<"">>
          /\ \E new_node \in StoryNodes :
             \E old_node \in {None} \cup {n \in StoryNodes : n.id = new_node.id} :
             \E order \in Orders(mention_removed(old_node, new_node, g)) :
               Done("sync_node_update",
                    [node_id |-> new_node.id, old_node |-> old_node, new_node |-> new_node],
                    sync_node_update("p1", old_node, new_node, g, index_ok, has_api_key, answer, eu, ru, order, now + 1))

\* a caller of sync_node_delete: load_graph, sync_node_delete, save_graph
SyncNodeDelete ==
  /\ now < MaxClock
  /\ \E node_id \in NodeIds, index_ok \in BOOLEAN :
       Done("sync_node_delete", [node_id |-> node_id],
            sync_node_delete("p1", node_id, load_graph("p1"), index_ok))

\* update_graph_entity: load_graph, update_entity, save_graph unless it raised
UpdateEntity ==
  /\ now < MaxClock
  /\ \E entity_id \in EntityIds, updates \in UpdatePayloads :
       Done("update_entity", [entity_id |-> entity_id, updates |-> updates],
            update_entity(load_graph("p1"), entity_id, updates, now + 1))

\* delete_graph_entity
DeleteEntity ==
  /\ now < MaxClock
  /\ \E entity_id \in EntityIds :
       Done("delete_entity", [entity_id |-> entity_id],
            delete_entity(load_graph("p1"), entity_id, now + 1))

\* merge_graph_entities
MergeEntities ==
  /\ now < MaxClock
  /\ \E from_id \in EntityIds, into_id \in EntityIds :
       Done("merge_entities", [from_id |-> from_id, into_id |-> into_id],
            merge_entities(load_graph("p1"), from_id, into_id, now + 1))

NextGraph ==
  \/ SyncNodeUpdate
  \/ SyncNodeDelete
  \/ UpdateEntity
  \/ DeleteEntity
  \/ MergeEntities

SpecGraph == InitGraph /\ [][NextGraph]_vars

(***************************************************************************)
(* Sync queue (sync_strategy.py).  A call of process_ready or flush runs   *)
(* from taking the lock to its first await of sync_node_update in one      *)
(* step, and from the completion of each await to the next await or to its *)
(* return in one step; enqueue has no await and runs in one step.  The     *)
(* operators below work on Q = [pu, po, lt, stored, run, ret], the queue's *)
(* three maps, the persisted graphs, the call's locals and what it         *)
(* returned.                                                               *)
(***************************************************************************)
\* SyncQueue.enqueue: the three maps after the call
enqueue_updates(pu, project_id, node) ==
  dict_set(pu, project_id, dict_set(dict_get(pu, project_id, <<>>), node.id, node))

\* a variant of enqueue that records the old_node of every call
enqueue_old_nodes_overwrite(po, project_id, node, old_node) ==
  dict_set(po, project_id, dict_set(dict_get(po, project_id, <<>>), node.id, old_node))

enqueue_old_nodes(po, project_id, node, old_node) ==
  LET old_nodes == dict_get(po, project_id, <<>>)
  IN IF ~dict_has(old_nodes, node.id) \/ old_node # None
     THEN dict_set(po, project_id, dict_set(old_nodes, node.id, old_node))
     ELSE dict_set(po, project_id, old_nodes)

enqueue_times(lt, project_id, node, t) ==
  dict_set(lt, project_id, dict_set(dict_get(lt, project_id, <<>>), node.id, t))

MinOf(S) == CHOOSE x \in S : \A y \in S : x <= y

\* a variant of the readiness rule whose debounce window is exclusive
ready_node_ids_strict(cfg, pending, last_updates, t) ==
  IF cfg.graph_sync_mode = "batch"
  THEN IF Len(pending) >= cfg.batch_size
          \/ \E i \in 1..Len(last_updates) : (t - last_updates[i].v) >= cfg.batch_timeout_seconds
       THEN dict_keys(pending) ELSE <<>>
  ELSE dict_keys(SelectSeq(last_updates, LAMBDA e : (t - e.v) > cfg.debounce_seconds))

\* a variant of the readiness rule whose batches wait for batch_size only
ready_node_ids_size_only(cfg, pending, last_updates, t) ==
  IF cfg.graph_sync_mode = "batch"
  THEN IF Len(pending) >= cfg.batch_size THEN dict_keys(pending) ELSE <<>>
  ELSE dict_keys(SelectSeq(last_updates, LAMBDA e : (t - e.v) >= cfg.debounce_seconds))

\* process_ready, lines 77-91: the node ids of one project that are ready
ready_node_ids(cfg, pending, last_updates, t) ==
  IF cfg.graph_sync_mode = "batch"
  THEN LET oldest == IF last_updates # <<>>
                     THEN MinOf({last_updates[i].v : i \in 1..Len(last_updates)})
                     ELSE t
           batch_ready == Len(pending) >= cfg.batch_size
           timeout_ready == (t - oldest) >= cfg.batch_timeout_seconds
       IN IF batch_ready \/ timeout_ready THEN dict_keys(pending) ELSE <<>>
  ELSE dict_keys(SelectSeq(last_updates, LAMBDA e : (t - e.v) >= cfg.debounce_seconds))

\* removal of one node from a project's entry of a map: d.get(p, {}).pop(n, None)
pop_node(d, project_id, node_id) ==
  IF dict_has(d, project_id)
  THEN dict_set(d, project_id, dict_pop(dict_get(d, project_id, <<>>), node_id))
  ELSE d

\* the graph on disk, or the empty graph
load_from(st, project_id, t) ==
  IF st[project_id] = None THEN empty_graph(project_id, t) ELSE st[project_id]

\* an entry of the record of a call's graph accesses (kept for the
\* properties; the code keeps no such record): the load of a project's graph,
\* a completed sync_node_update with the graph it was passed and the graph it
\* left, or the save of a project's graph
Access(ev, project_id, node_id, graph_in, graph_out) ==
  [ev |-> ev, project |-> project_id, node_id |-> node_id,
   graph_in |-> graph_in, graph_out |-> graph_out]

Returned(r, results, raised) ==
  [call |-> r.kind, arg |-> r.arg, start |-> r.start, seen |-> r.seen,
   results |-> results, raised |-> raised, log |-> r.log]

\* what a call finds of a project when it reads the project's maps (kept for
\* the properties; the code keeps no such record)
Seen(project_id, Q) ==
  [project |-> project_id, pending |-> dict_get(Q.pu, project_id, <<>>),
   old_nodes |-> dict_get(Q.po, project_id, <<>>),
   last_updates |-> dict_get(Q.lt, project_id, <<>>), enqueued |-> Q.enqueued]

\* process_ready from line 72 on: runs to the next await (run.cur set) or to
\* the return (run = None)
RECURSIVE pr_continue(_, _, _)
pr_continue(Q, cfg, t) ==
  LET r == Q.run
  IN IF r.active # ""
     THEN IF r.ready # <<>>
          THEN LET node_id == Head(r.ready)
                   node == dict_get(dict_get(Q.pu, r.active, <<>>), node_id, None)
                   old_node == dict_get(dict_get(Q.po, r.active, <<>>), node_id, None)
                   Q1 == [Q EXCEPT !.pu = pop_node(Q.pu, r.active, node_id),
                                   !.po = pop_node(Q.po, r.active, node_id),
                                   !.lt = pop_node(Q.lt, r.active, node_id),
                                   !.run.ready = Tail(r.ready)]
               IN IF node = None THEN pr_continue(Q1, cfg, t)
                  ELSE [Q1 EXCEPT !.run.cur = [node_id |-> node_id, node |-> node,
                                               old_node |-> old_node]]
          ELSE LET Q1 == IF r.project_results # <<>>
                         THEN [Q EXCEPT !.stored[r.active] = save_graph(r.graph, t),
                                        !.run.results = r.results \o r.project_results,
                                        !.run.log = Append(r.log, Access("save", r.active, "", r.graph, r.graph))]
                         ELSE Q
                   Q2 == IF dict_get(Q.pu, r.active, <<>>) = <<>>
                         THEN [Q1 EXCEPT !.pu = dict_pop(Q.pu, r.active),
                                         !.po = dict_pop(Q.po, r.active),
                                         !.lt = dict_pop(Q.lt, r.active)]
                         ELSE Q1
               IN pr_continue([Q2 EXCEPT !.run.active = "",
                                         !.run.project_results = <<>>], cfg, t)
     ELSE IF r.projects = <<>>
     THEN [Q EXCEPT !.run = None, !.ret = Returned(r, r.results, FALSE)]
     ELSE LET p == Head(r.projects)
              pending == dict_get(Q.pu, p, <<>>)
              ready == ready_node_ids(cfg, pending, dict_get(Q.lt, p, <<>>), r.now)
              Qn == [Q EXCEPT !.run.projects = Tail(r.projects),
                              !.run.seen = IF pending = <<>> THEN r.seen
                                           ELSE Append(r.seen, Seen(p, Q))]
          IN IF pending = <<>> \/ ready = <<>> THEN pr_continue(Qn, cfg, t)
             ELSE LET g == load_from(Q.stored, p, t)
                  IN pr_continue([Qn EXCEPT !.run.active = p, !.run.ready = ready,
                                            !.run.graph = g,
                                            !.run.log = Append(r.log, Access("load", p, "", g, g)),
                                            !.run.project_results = <<>>], cfg, t)

\* flush from line 138 on: to the next await, or save, pop and return
flush_continue(Q, t) ==
  LET r == Q.run
  IN IF r.items # <<>>
     THEN LET item == Head(r.items)
          IN [Q EXCEPT !.run.items = Tail(r.items),
                       !.run.cur = [node_id |-> item.k, node |-> item.v,
                                    old_node |-> dict_get(dict_get(Q.po, r.active, <<>>),
                                                          item.k, None)]]
     ELSE [Q EXCEPT !.stored[r.active] = save_graph(r.graph, t),
                    !.pu = dict_pop(Q.pu, r.active),
                    !.po = dict_pop(Q.po, r.active),
                    !.lt = dict_pop(Q.lt, r.active),
                    !.run = None,
                    !.ret = Returned([r EXCEPT !.log = Append(r.log, Access("save", r.active, "", r.graph, r.graph))],
                                     r.results, FALSE)]

\* the locals of a call that has taken the lock
NewRun(kind, arg, projects, t, Q) ==
  [kind |-> kind, arg |-> arg, now |-> t, projects |-> projects, active |-> "",
   ready |-> <<>>, items |-> <<>>, graph |-> None, project_results |-> <<>>,
   results |-> <<>>, cur |-> None, seen |-> <<>>, log |-> <<>>,
   start |-> [pu |-> Q.pu, po |-> Q.po, lt |-> Q.lt, stored |-> Q.stored, now |-> t]]

\* SyncQueue.process_ready up to its first await or its return
process_ready(Q, cfg, project_id, t) ==
  IF cfg.graph_sync_mode \notin {"debounced", "batch"}
  THEN [Q EXCEPT !.ret = Returned(NewRun("process_ready", project_id, <<>>, t, Q), <<>>, FALSE)]
  ELSE pr_continue([Q EXCEPT !.run = NewRun("process_ready", project_id,
                                            IF project_id # "" THEN <<project_id>>
                                            ELSE dict_keys(Q.pu), t, Q)], cfg, t)

\* SyncQueue.flush up to its first await or its return
flush(Q, cfg, project_id, t) ==
  LET r == NewRun("flush", project_id, <<>>, t, Q)
      pending == dict_get(Q.pu, project_id, <<>>)
  IN IF cfg.graph_sync_mode = "manual" \/ pending = <<>>
     THEN [Q EXCEPT !.ret = Returned(r, <<>>, FALSE)]
     ELSE LET g == load_from(Q.stored, project_id, t)
          IN flush_continue([Q EXCEPT !.run = [r EXCEPT !.active = project_id,
                                                        !.items = pending,
                                                        !.seen = <<Seen(project_id, Q)>>,
                                                        !.log = <<Access("load", project_id, "", g, g)>>,
                                                        !.graph = g]], t)

\* the awaited sync_node_update completing inside process_ready or flush: it
\* raises (the call ends, the lock is released) or its result is appended
resume(Q, cfg, sync, t) ==
  LET r == Q.run
  IN IF ~sync.ok THEN [Q EXCEPT !.run = None, !.ret = Returned(r, r.results, TRUE)]
     ELSE LET res == [project |-> r.active, node_id |-> r.cur.node_id,
                      node |-> r.cur.node, old_node |-> r.cur.old_node,
                      graph_updated |-> sync.result.graph_updated]
              log == Append(r.log, Access("sync", r.active, r.cur.node_id, r.graph, sync.graph))
          IN IF r.kind = "flush"
             THEN flush_continue([Q EXCEPT !.run.graph = sync.graph, !.run.cur = None,
                                           !.run.log = log,
                                           !.run.results = Append(r.results, res)], t)
             ELSE pr_continue([Q EXCEPT !.run.graph = sync.graph, !.run.cur = None,
                                        !.run.log = log,
                                        !.run.project_results =
                                          Append(r.project_results, res)], cfg, t)

TheQueue ==
  [pu |-> pending_updates, po |-> pending_old_nodes, lt |-> last_update_time,
   stored |-> stored, run |-> run, ret |-> None, enqueued |-> enqueued]

Becomes(Q) ==
  /\ pending_updates' = Q.pu
  /\ pending_old_nodes' = Q.po
  /\ last_update_time' = Q.lt
  /\ stored' = Q.stored
  /\ run' = Q.run
  /\ ret' = Q.ret
  /\ UNCHANGED <<now, config, graph_vars, other_vars>>

InitQueue ==
  /\ stored = [p \in Projects |-> None]
  /\ now = 0
  /\ mem = None
  /\ last = NoOp
  /\ config \in SyncConfigs
  /\ pending_updates = <<>>
  /\ pending_old_nodes = <<>>
  /\ last_update_time = <<>>
  /\ run = None
  /\ ret = None
  /\ enqueued = {}
  /\ OtherIdle

\* a caller of enqueue (sync_graph_background, main.py:234)
Enqueue ==
  /\ \E edit \in Edits \ enqueued :
       LET node == StoryNode(edit[2], <<"t">>, edit[3])
           old_node == IF edit[4] THEN StoryNode(edit[2], <<"t">>, <<"a">>) ELSE None
       IN /\ enqueued' = enqueued \cup {edit}
          /\ Becomes([TheQueue EXCEPT
                        !.pu = enqueue_updates(pending_updates, edit[1], node),
                        !.po = enqueue_old_nodes(pending_old_nodes, edit[1], node, old_node),
                        !.lt = enqueue_times(last_update_time, edit[1], node, now)])

\* a call of process_ready taking the lock; project_id "" is the call without
\* a project (None and "" are both false in line 67)
ProcessReady ==
  /\ run = None
  /\ \E project_id \in Projects \cup {""} :
       Becomes(process_ready(TheQueue, config, project_id, now))
  /\ UNCHANGED enqueued

\* a call of flush taking the lock
Flush ==
  /\ run = None
  /\ \E project_id \in Projects :
       Becomes(flush(TheQueue, config, project_id, now))
  /\ UNCHANGED enqueued

\* the reconciliation awaited by the call holding the lock completes
Resume ==
  /\ run # None
  /\ LET g == run.graph
         eu == <<fresh_id(EntityIdPool, EntityIdsOf(g))>>
     IN \E answer \in QueueAnswers, index_ok \in BOOLEAN, has_api_key \in BOOLEAN :
          /\ ~index_ok => answer = OracleFail /\ has_api_key
          /\ ~has_api_key => answer = ExtractionResult(<<>>, <<>>)
          /\ answer # OracleFail => (Len(answer.new_entities) > 0 => eu # <<"">>)
          /\ \E order \in Orders(mention_removed(run.cur.old_node, run.cur.node, g)) :
               Becomes(resume(TheQueue, config,
                              sync_node_update(run.active, run.cur.old_node, run.cur.node, g, index_ok, has_api_key, answer, eu, <<>>, order, now),
                              now))
  /\ UNCHANGED enqueued

\* time passes
Tick ==
  /\ now < MaxTime
  /\ now' = now + 1
  /\ ret' = None
  /\ UNCHANGED <<stored, config, pending_updates, pending_old_nodes, last_update_time, run, enqueued, graph_vars, other_vars>>

NextQueue ==
  \/ Enqueue
  \/ ProcessReady
  \/ Flush
  \/ Resume
  \/ Tick

SpecQueue == InitQueue /\ [][NextQueue]_vars

(***************************************************************************)
(* Properties of the graph operations, checked under SpecGraph             *)
(***************************************************************************)
SyncOps == {"sync_node_update", "sync_node_delete"}

EditorOps == {"update_entity", "delete_entity", "merge_entities"}

no_empty_source_refs(g) ==
  /\ \A i \in 1..Len(g.entities) : g.entities[i].source_refs # {}
  /\ \A i \in 1..Len(g.relations) : g.relations[i].source_refs # {}

\* C6: after any successful sync operation (sync_node_update or
\* sync_node_delete), whatever sync and editor operations preceded it, the
\* graph it worked on holds no entity and no relation whose source_refs is
\* empty.
C6_NoEmptySourceRefsAfterSync ==
  (last.op \in SyncOps /\ last.ok) => no_empty_source_refs(mem)

well_formed(g) ==
  /\ \A i, j \in 1..Len(g.entities) : g.entities[i].id = g.entities[j].id => i = j
  /\ \A i \in 1..Len(g.relations) :
       /\ g.relations[i].source_id \in EntityIdsOf(g)
       /\ g.relations[i].target_id \in EntityIdsOf(g)

\* C7: every graph reached by a sequence of sync_node_update,
\* sync_node_delete and editor update/delete/merge operations that starts from
\* a well-formed graph has unique entity ids and no relation whose source_id
\* or target_id is not the id of an entity of the graph.
C7_NoDanglingRelation ==
  mem # None => well_formed(mem)

\* what sync_node_delete(node_id) leaves of the entities `before`: those whose
\* only source was the node are gone, the others that named it have lost it
entities_after_delete(before, node_id) ==
  LET kept == SelectSeq(before, LAMBDA e : e.source_refs # {node_id})
  IN [i \in 1..Len(kept) |-> [kept[i] EXCEPT !.source_refs = @ \ {node_id}]]

\* C8: a successful sync_node_delete(node) removes every entity whose
\* source_refs was exactly that node, keeps every entity the node and another
\* node referenced with the node removed from its source_refs, and leaves the
\* entities and relations that do not reference the node as they were.
C8_SyncNodeDelete ==
  [][(last'.op = "sync_node_delete" /\ last'.ok) =>
       LET before == load_graph("p1")
           node_id == last'.args.node_id
       IN /\ mem'.entities = entities_after_delete(before.entities, node_id)
          /\ \A i \in 1..Len(before.relations) :
               node_id \notin before.relations[i].source_refs =>
                 \E j \in 1..Len(mem'.relations) :
                   mem'.relations[j] = before.relations[i]]_vars

\* a sync_node_delete that removed one entity and kept another it stripped
C8_Witness ==
  /\ last.op = "sync_node_delete" /\ last.ok
  /\ last.args.node_id = "n1"
  /\ last.result.removed_entities = <<"e1">>
  /\ \E i \in 1..Len(mem.entities) :
       mem.entities[i].id = "e2" /\ mem.entities[i].source_refs = {"n2"}
  /\ Len(mem.relations) > 0

C10_MergeEntities ==
  [][(last'.op = "merge_entities" /\ last'.ok) =>
       LET before == load_graph("p1")
           from_id == last'.args.from_id
           into_id == last'.args.into_id
           A == before.entities[find_entity(before, from_id)]
           B == before.entities[find_entity(before, into_id)]
           merged == mem'.entities[find_entity(mem', into_id)]
       IN /\ find_entity(mem', from_id) = 0
          /\ \A i \in 1..Len(mem'.relations) :
               /\ mem'.relations[i].source_id # from_id
               /\ mem'.relations[i].target_id # from_id
          /\ find_entity(mem', into_id) # 0
          /\ (({A.name} \cup A.aliases) \ {B.name}) \subseteq merged.aliases
          /\ merged.source_refs = A.source_refs \cup B.source_refs
          /\ stored'["p1"].entities = mem'.entities
          /\ stored'["p1"].relations = mem'.relations]_vars

\* a merge of an entity with an alias into one with other sources, a relation
\* between the two being redirected
C10_Witness ==
  /\ last.op = "merge_entities" /\ last.ok
  /\ last.args = [from_id |-> "e1", into_id |-> "e2"]
  /\ last.result.aliases = {<<"b">>, <<"c">>}
  /\ last.result.source_refs = {"n1", "n2"}
  /\ \E i \in 1..Len(mem.relations) : mem.relations[i].source_id = "e2"

(***************************************************************************)
(* Properties of the sync queue, checked under SpecQueue                   *)
(***************************************************************************)
\* the entry of a node in one of the three maps: <<value>>, or << >> if none
Lookup(d, project_id, node_id) ==
  LET inner == dict_get(d, project_id, <<>>)
  IN IF dict_has(inner, node_id) THEN <<dict_get(inner, node_id, None)>> ELSE <<>>

MapKeys == {<<"p1", "n1">>, <<"p1", "n2">>, <<"p2", "n1">>, <<"p2", "n2">>}

\* C1: while a process_ready or flush call holds the queue lock (suspended at
\* its await included), no enqueue modifies pending_updates, pending_old_nodes
\* or last_update_time.
C1_EnqueueExcluded ==
  [][(run # None /\ enqueued' # enqueued) =>
       UNCHANGED <<pending_updates, pending_old_nodes, last_update_time>>]_vars

\* the number of results a call returned for one node
ResultCount(r, project_id, node_id) ==
  Cardinality({i \in 1..Len(r.results) :
                 r.results[i].project = project_id /\ r.results[i].node_id = node_id})

\* no enqueue for the node since the call read the project's maps
Quiet(seen, node_id) ==
  \A edit \in enqueued \ seen.enqueued :
    ~(edit[1] = seen.project /\ edit[2] = node_id)

Absent(project_id, node_id) ==
  /\ Lookup(pending_updates, project_id, node_id) = <<>>
  /\ Lookup(pending_old_nodes, project_id, node_id) = <<>>
  /\ Lookup(last_update_time, project_id, node_id) = <<>>

\* every result of the call is for a node the call found pending
ResultsSeen(r) ==
  \A i \in 1..Len(r.results) :
    \E k \in 1..Len(r.seen) :
      /\ r.seen[k].project = r.results[i].project
      /\ dict_has(r.seen[k].pending, r.results[i].node_id)

\* C2: in debounced graph mode with window d, a process_ready call that
\* returns gives no result for a pending node enqueued less than d before the
\* call and leaves it pending, and gives exactly one result for a pending node
\* enqueued at least d before the call and removes it from the three pending
\* maps (where it is again only if it was enqueued again meanwhile).
C2_Debounced ==
  (ret # None /\ ret.call = "process_ready" /\ ~ret.raised
     /\ config.graph_sync_mode = "debounced") =>
    /\ ResultsSeen(ret)
    /\ \A k \in 1..Len(ret.seen) :
         LET s == ret.seen[k]
         IN \A i \in 1..Len(s.last_updates) :
              LET node_id == s.last_updates[i].k
              IN IF ret.start.now - s.last_updates[i].v >= config.debounce_seconds
                 THEN /\ ResultCount(ret, s.project, node_id) = 1
                      /\ Quiet(s, node_id) => Absent(s.project, node_id)
                 ELSE /\ ResultCount(ret, s.project, node_id) = 0
                      /\ Lookup(pending_updates, s.project, node_id) # <<>>
                      /\ Lookup(last_update_time, s.project, node_id) # <<>>

\* a debounced call that found two nodes of a project, one of them ready
C2_Witness ==
  /\ ret # None /\ ret.call = "process_ready" /\ ~ret.raised
  /\ config.graph_sync_mode = "debounced"
  /\ Len(ret.results) = 1
  /\ \E k \in 1..Len(ret.seen) : Len(ret.seen[k].pending) = 2

\* the readiness of a project in batch mode, from what the call found
BatchReady(s, t) ==
  \/ Len(s.pending) >= config.batch_size
  \/ \E i \in 1..Len(s.last_updates) :
       /\ \A j \in 1..Len(s.last_updates) : s.last_updates[i].v <= s.last_updates[j].v
       /\ t - s.last_updates[i].v >= config.batch_timeout_seconds

\* C3: in batch graph mode a process_ready call that returns reconciles a
\* project's pending nodes exactly when their count is at least batch_size or
\* the oldest pending update is at least batch_timeout_seconds old: then every
\* pending node of the project has one result and is removed, otherwise none
\* has a result and the project's entries in the pending maps are unchanged.
C3_Batch ==
  (ret # None /\ ret.call = "process_ready" /\ ~ret.raised
     /\ config.graph_sync_mode = "batch") =>
    /\ ResultsSeen(ret)
    /\ \A k \in 1..Len(ret.seen) :
         LET s == ret.seen[k]
         IN \A i \in 1..Len(s.pending) :
              LET node_id == s.pending[i].k
              IN IF BatchReady(s, ret.start.now)
                 THEN /\ ResultCount(ret, s.project, node_id) = 1
                      /\ Quiet(s, node_id) => Absent(s.project, node_id)
                 ELSE /\ ResultCount(ret, s.project, node_id) = 0
                      /\ Quiet(s, node_id) =>
                           /\ Lookup(pending_updates, s.project, node_id)
                                = <<s.pending[i].v>>
                           /\ Lookup(pending_old_nodes, s.project, node_id)
                                = Lookup(<<[k |-> s.project, v |-> s.old_nodes]>>,
                                         s.project, node_id)
                           /\ Lookup(last_update_time, s.project, node_id)
                                = Lookup(<<[k |-> s.project, v |-> s.last_updates]>>,
                                         s.project, node_id)

\* a batch call that reconciled a project of two pending nodes
C3_Witness ==
  /\ ret # None /\ ret.call = "process_ready" /\ ~ret.raised
  /\ config.graph_sync_mode = "batch"
  /\ Len(ret.results) = 2
  /\ ret.results[1].project = ret.results[2].project

\* C4: a flush(project) that returns in a graph mode other than manual has
\* reconciled every node that was pending for the project whatever its timers,
\* returns one result per pending node, and leaves the project without an
\* entry in any of the three pending maps; in manual mode it returns no result
\* and leaves the pending maps and the persisted graphs unchanged.
C4_Flush ==
  (ret # None /\ ret.call = "flush" /\ ~ret.raised) =>
    IF config.graph_sync_mode = "manual"
    THEN /\ ret.results = <<>>
         /\ pending_updates = ret.start.pu
         /\ pending_old_nodes = ret.start.po
         /\ last_update_time = ret.start.lt
         /\ stored = ret.start.stored
    ELSE LET pending == dict_get(ret.start.pu, ret.arg, <<>>)
         IN /\ Len(ret.results) = Len(pending)
            /\ \A i \in 1..Len(pending) :
                 /\ ret.results[i].project = ret.arg
                 /\ ret.results[i].node_id = pending[i].k
            /\ ~dict_has(pending_updates, ret.arg)
            /\ ~dict_has(pending_old_nodes, ret.arg)
            /\ ~dict_has(last_update_time, ret.arg)

\* C5: enqueue(project, node, old_node) makes node the pending entry of
\* node.id, sets its last-update time to now, records old_node when it is not
\* null or the node id has no old node recorded yet and keeps the recorded one
\* otherwise; the entries of every other node and project are unchanged.
C5_Enqueue ==
  [][enqueued' # enqueued =>
       \E edit \in enqueued' \ enqueued :
         LET node == StoryNode(edit[2], <<"t">>, edit[3])
             known == Lookup(pending_old_nodes, edit[1], edit[2])
         IN /\ Lookup(pending_updates', edit[1], edit[2]) = <<node>>
            /\ Lookup(last_update_time', edit[1], edit[2]) = <<now>>
            /\ Lookup(pending_old_nodes', edit[1], edit[2]) =
                 IF edit[4] THEN <<StoryNode(edit[2], <<"t">>, <<"a">>)>>
                 ELSE IF known = <<>> THEN <<None>> ELSE known
            /\ \A key \in MapKeys \ {<<edit[1], edit[2]>>} :
                 /\ Lookup(pending_updates', key[1], key[2])
                      = Lookup(pending_updates, key[1], key[2])
                 /\ Lookup(pending_old_nodes', key[1], key[2])
                      = Lookup(pending_old_nodes, key[1], key[2])
                 /\ Lookup(last_update_time', key[1], key[2])
                      = Lookup(last_update_time, key[1], key[2])]_vars

\* a node enqueued with an old node and then again without one, another node
\* pending beside it
C5_Witness ==
  /\ Lookup(pending_updates, "p1", "n1") = <<StoryNode("n1", <<"t">>, <<"a">>)>>
  /\ Lookup(pending_old_nodes, "p1", "n1") = <<StoryNode("n1", <<"t">>, <<"a">>)>>
  /\ Lookup(pending_updates, "p1", "n2") # <<>>
  /\ run = None

(***************************************************************************)
(* Graph editor: delete_entity, checked under SpecGraph                    *)
(***************************************************************************)
\* C11: delete_entity(id) fails with "Entity not found" when no entity has the
\* id; otherwise it removes the entity and every relation that has the id as
\* source or target, returns the number of relations removed, and leaves every
\* other entity and every relation not incident to the id unchanged.
C11_DeleteEntity ==
  [][last'.op = "delete_entity" =>
       LET before == load_graph("p1")
           entity_id == last'.args.entity_id
           incident(r) == r.source_id = entity_id \/ r.target_id = entity_id
       IN IF entity_id \notin EntityIdsOf(before)
          THEN /\ ~last'.ok
               /\ last'.error = "Entity not found"
          ELSE /\ last'.ok
               /\ mem'.entities = SelectSeq(before.entities, LAMBDA e : e.id # entity_id)
               /\ mem'.relations = SelectSeq(before.relations, LAMBDA r : ~incident(r))
               /\ last'.result = Cardinality({i \in 1..Len(before.relations) :
                                                incident(before.relations[i])})
               /\ stored'["p1"].entities = mem'.entities
               /\ stored'["p1"].relations = mem'.relations]_vars

\* a delete_entity that removed a relation arriving at the entity and left
\* another entity in the graph
C11_Witness ==
  /\ last.op = "delete_entity" /\ last.ok
  /\ last.args.entity_id = "e2"
  /\ last.result = 1
  /\ Len(mem.entities) = 1
  /\ mem.relations = <<>>

(***************************************************************************)
(* The hybrid retriever's token budget (graph_retriever.py).  The searches *)
(* of the node index, of the world knowledge and of the graph are inputs:  *)
(* retrieve_context is modelled from the candidate lists they produce.     *)
(* The CJK characters of the summaries are written as capital letters, one *)
(* letter for each character.                                              *)
(***************************************************************************)
Rep(n, c) == [i \in 1..n |-> c]

\* str.join
RECURSIVE Join(_, _)
Join(parts, sep) ==
  IF parts = <<>> THEN <<>>
  ELSE IF Len(parts) = 1 THEN parts[1]
  ELSE parts[1] \o sep \o Join(Tail(parts), sep)

\* an estimate that rounds the quarter of the length up
estimate_tokens_rounding_up(text) ==
  IF text = <<>> THEN 0
  ELSE (Len(text) + 3) \div 4

\* graph_retriever._estimate_tokens
estimate_tokens(text) ==
  IF text = <<>> THEN 0
  ELSE IF Len(text) \div 4 < 1 THEN 1 ELSE Len(text) \div 4

\* graph_retriever._node_summary
node_summary(node) ==
  LET stripped == Strip(node.content)
      replaced == [i \in 1..Len(stripped) |-> IF stripped[i] = "\n" THEN " " ELSE stripped[i]]
      content == IF Len(replaced) > 120
                 THEN SubSeq(replaced, 1, 117) \o <<".", ".", ".">>
                 ELSE replaced
      location == IF node.location_tag # <<>>
                  THEN << <<"D", "D", "=">> \o node.location_tag >>
                  ELSE <<>>
      first5 == SubSeq(node.characters, 1, IF Len(node.characters) < 5 THEN Len(node.characters) ELSE 5)
      characters == IF node.characters # <<>>
                    THEN << <<"J", "S", "=">> \o Join(first5, <<",">>) >>
                    ELSE <<>>
      meta_parts == location \o characters
      meta == IF meta_parts # <<>>
              THEN <<"(">> \o Join(meta_parts, <<";", " ">>) \o <<")">>
              ELSE <<>>
  IN node.title \o meta \o <<":">> \o content

RankedItem(score, kind, value) == [score |-> score, kind |-> kind, value |-> value]

RetrievalContext(nodes, knowledge, entities, relations, token_count) ==
  [relevant_nodes |-> nodes, relevant_knowledge |-> knowledge,
   relevant_entities |-> entities, relevant_relations |-> relations,
   token_count |-> token_count]

\* the text add_item estimates for an item of each kind
item_text(kind, value) ==
  IF kind = "node" THEN node_summary(value)
  ELSE IF kind = "knowledge" THEN value.snippet
  ELSE IF kind = "entity" THEN value.name \o <<" ">> \o value.description
  ELSE value.relation_name \o <<" ">> \o value.description

\* add_item that appends whatever the budget
add_item_unchecked(acc, item, max_tokens) ==
  LET cost == estimate_tokens(item_text(item.kind, item.value))
  IN IF item.kind = "node"
     THEN [acc EXCEPT !.relevant_nodes = Append(@, item.value), !.token_count = @ + cost]
     ELSE IF item.kind = "knowledge"
     THEN [acc EXCEPT !.relevant_knowledge = Append(@, item.value), !.token_count = @ + cost]
     ELSE IF item.kind = "entity"
     THEN [acc EXCEPT !.relevant_entities = Append(@, item.value), !.token_count = @ + cost]
     ELSE [acc EXCEPT !.relevant_relations = Append(@, item.value), !.token_count = @ + cost]

\* _truncate_context.add_item: the item is appended to the list of its kind
\* when its cost still fits
add_item(acc, item, max_tokens) ==
  LET cost == estimate_tokens(item_text(item.kind, item.value))
  IN IF acc.token_count + cost <= max_tokens
     THEN add_item_unchecked(acc, item, max_tokens)
     ELSE acc

\* a loop that ends at the first item that does not fit
RECURSIVE add_items_until_misfit(_, _, _, _)
add_items_until_misfit(acc, ranked, i, max_tokens) ==
  IF i > Len(ranked) THEN acc
  ELSE LET added == add_item(acc, ranked[i], max_tokens)
       IN IF added = acc \/ added.token_count >= max_tokens THEN added
          ELSE add_items_until_misfit(added, ranked, i + 1, max_tokens)

\* the loop of _truncate_context from position i of the ranked list
RECURSIVE add_items(_, _, _, _)
add_items(acc, ranked, i, max_tokens) ==
  IF i > Len(ranked) THEN acc
  ELSE LET added == add_item(acc, ranked[i], max_tokens)
       IN IF added.token_count >= max_tokens THEN added
          ELSE add_items(added, ranked, i + 1, max_tokens)

\* list.sort(key=score, reverse=True): stable, equal scores keep their order
sort_by_score(ranked) ==
  SelectSeq(ranked, LAMBDA item : item.score = 3)
    \o SelectSeq(ranked, LAMBDA item : item.score = 2)
    \o SelectSeq(ranked, LAMBDA item : item.score = 1)

\* the list `ranked` of _truncate_context before it is sorted
ranked_items(ctx, direct_entity_ids, relation_layers, entity_layers) ==
  LET layer_entity_ids == {entity_layers[i].id : i \in 1..Len(entity_layers)}
      entity_score(entity) == IF entity.id \in direct_entity_ids THEN 3
                              ELSE IF entity.id \in layer_entity_ids THEN 2 ELSE 1
      relation_score_of(relation) == IF relation \in Range(relation_layers) THEN 2 ELSE 3
  IN [i \in 1..Len(ctx.relevant_nodes) |-> RankedItem(3, "node", ctx.relevant_nodes[i])]
       \o [i \in 1..Len(ctx.relevant_knowledge) |->
             RankedItem(2, "knowledge", ctx.relevant_knowledge[i])]
       \o [i \in 1..Len(ctx.relevant_entities) |->
             RankedItem(entity_score(ctx.relevant_entities[i]), "entity", ctx.relevant_entities[i])]
       \o [i \in 1..Len(ctx.relevant_relations) |->
             RankedItem(relation_score_of(ctx.relevant_relations[i]), "relation", ctx.relevant_relations[i])]

\* GraphRetriever._truncate_context
truncate_context(ctx, max_tokens, direct_entity_ids, relation_layers, entity_layers) ==
  add_items(RetrievalContext(<<>>, <<>>, <<>>, <<>>, 0),
            sort_by_score(ranked_items(ctx, direct_entity_ids, relation_layers, entity_layers)),
            1, max_tokens)

\* GraphRetriever.retrieve_context from the candidates its searches produced
retrieve_context(c, max_tokens) ==
  truncate_context(RetrievalContext(c.nodes, c.knowledge,
                                    c.entity_hits \o c.entity_layers,
                                    c.relation_hits \o c.relation_layers, 0),
                   max_tokens,
                   {c.entity_hits[i].id : i \in 1..Len(c.entity_hits)},
                   c.relation_layers, c.entity_layers)

MaxTokens == 5

SummaryNode(id, content, location_tag, characters) ==
  [id |-> id, title |-> <<"t">>, content |-> content,
   location_tag |-> location_tag, characters |-> characters]

\* summaries of 8, 19 and 122 characters
ShortNode == SummaryNode("n1", Rep(6, "x"), <<>>, <<>>)

TaggedNode == SummaryNode("n2", <<" ", "a", "\n", "b", " ">>, <<"L">>, << <<"c">>, <<"d">> >>)

LongNode == SummaryNode("n3", Rep(130, "x"), <<>>, <<>>)

KnowledgeEvidence(source_id, snippet) == [source_id |-> source_id, snippet |-> snippet]

CandidateNodes ==
  {<<>>, <<ShortNode>>, <<TaggedNode>>, <<ShortNode, TaggedNode>>,
   <<TaggedNode, ShortNode>>, <<LongNode, ShortNode>>}

CandidateKnowledge ==
  LET k1 == KnowledgeEvidence("k1", Rep(3, "k"))
      k2 == KnowledgeEvidence("k2", Rep(9, "k"))
  IN {<<>>, <<k1>>, <<k2>>, <<k2, k1>>}

CandidateEntity(id, description) == Entity(id, <<"a">>, "character", description, {}, "props0", {})

CandidateRelation(id, description) == Relation(id, "e1", "e2", "friend", <<"x">>, description, 0, {})

Candidates ==
  [nodes : CandidateNodes,
   knowledge : CandidateKnowledge,
   entity_hits : {<<>>, <<CandidateEntity("e1", <<>>)>>},
   entity_layers : {<<>>, <<CandidateEntity("e2", Rep(10, "d"))>>,
                    <<CandidateEntity("e1", <<>>), CandidateEntity("e2", Rep(10, "d"))>>},
   relation_hits : {<<>>, <<CandidateRelation("r1", <<>>)>>},
   relation_layers : {<<>>, <<CandidateRelation("r2", Rep(6, "d"))>>,
                      <<CandidateRelation("r1", <<>>), CandidateRelation("r2", Rep(6, "d"))>>}]

InitRetriever ==
  /\ stored = [p \in Projects |-> None]
  /\ now = 0
  /\ mem = None
  /\ last = NoOp
  /\ config = SyncConfig("debounced", 5, 10, 60)
  /\ pending_updates = <<>>
  /\ pending_old_nodes = <<>>
  /\ last_update_time = <<>>
  /\ run = None
  /\ ret = None
  /\ enqueued = {}
  /\ \E c \in Candidates, max_tokens \in 1..MaxTokens :
       context = [candidates |-> c, max_tokens |-> max_tokens, result |-> None]
  /\ snapshots = [p \in Projects |-> <<>>]
  /\ versioning_config = None
  /\ assigned = [p \in Projects |-> {}]
  /\ vlast = NoOp
  /\ loop = "sleeping"
  /\ HandlersIdle

\* the call of retrieve_context returns
RetrieveContext ==
  /\ context.result = None
  /\ context' = [context EXCEPT !.result = retrieve_context(context.candidates, context.max_tokens)]
  /\ UNCHANGED <<stored, now, graph_vars, queue_vars, version_vars, handler_vars>>

NextRetriever == RetrieveContext

SpecRetriever == InitRetriever /\ [][NextRetriever]_vars

RECURSIVE SumCosts(_, _)
SumCosts(kind, values) ==
  IF values = <<>> THEN 0
  ELSE estimate_tokens(item_text(kind, Head(values))) + SumCosts(kind, Tail(values))

\* C12: for every budget max_tokens >= 1 and all candidates, the token_count of
\* the context retrieve_context returns is the sum of the token costs of the
\* nodes, knowledge snippets, entities and relations it contains, and it is at
\* most max_tokens.
C12_TokenBudget ==
  context.result # None =>
    LET r == context.result
    IN /\ r.token_count = SumCosts("node", r.relevant_nodes)
                            + SumCosts("knowledge", r.relevant_knowledge)
                            + SumCosts("entity", r.relevant_entities)
                            + SumCosts("relation", r.relevant_relations)
       /\ r.token_count <= context.max_tokens

\* a retrieval that filled its budget exactly, kept items of two kinds and
\* dropped candidates that no longer fitted
C12_Witness ==
  /\ context.result # None
  /\ context.max_tokens = 3
  /\ context.result.token_count = 3
  /\ context.result.relevant_nodes = <<ShortNode>>
  /\ context.candidates.nodes = <<ShortNode, TaggedNode>>
  /\ Len(context.result.relevant_entities) = 1
  /\ context.candidates.knowledge # <<>>
  /\ context.result.relevant_knowledge = <<>>

(***************************************************************************)
(* The version manager and its storage (version_manager.py,                *)
(* version_storage.py, versioning.py).  A snapshot file and its index row  *)
(* are written and removed together by every storage operation, so the    *)
(* storage of a project is one map from versions to snapshots.  Optional   *)
(* texts (name, description) are None or Text(t).                          *)
(***************************************************************************)
SnapshotTypes == {"auto", "manual", "milestone", "pre_sync"}

Text(t) == [text |-> t]

VersioningConfig(auto_snapshot_interval, major_change_threshold, max_auto_snapshots) ==
  [auto_snapshot_interval |-> auto_snapshot_interval,
   major_change_threshold |-> major_change_threshold,
   max_auto_snapshots |-> max_auto_snapshots]

StoryProject(id, nodes) == [id |-> id, title |-> <<"t">>, nodes |-> nodes]

IndexSnapshot(version, snapshot_type, name, description, story_project, knowledge_graph, world_documents, created_at) ==
  [version |-> version, snapshot_type |-> snapshot_type, name |-> name,
   description |-> description, story_project |-> story_project,
   knowledge_graph |-> knowledge_graph, world_documents |-> world_documents,
   node_count |-> Len(story_project.nodes),
   entity_count |-> Len(knowledge_graph.entities), created_at |-> created_at]

MaxOf(S) == CHOOSE x \in S : \A y \in S : x >= y

\* VersionStorage.save_snapshot: the file is replaced, the index row upserted
save_snapshot(S, snapshot) ==
  LET f == S[snapshot.story_project.id]
  IN [S EXCEPT ![snapshot.story_project.id] =
        [v \in DOMAIN f \cup {snapshot.version} |->
           IF v = snapshot.version THEN snapshot ELSE f[v]]]

\* VersionStorage.delete_snapshot
delete_snapshot(S, project_id, version) ==
  LET f == S[project_id]
  IN [S EXCEPT ![project_id] = [v \in DOMAIN f \ {version} |-> f[v]]]

\* VersionStorage.list_snapshots: the index rows of the project, highest
\* version first
RECURSIVE rows_desc(_, _)
rows_desc(f, versions) ==
  IF versions = {} THEN <<>>
  ELSE LET v == MaxOf(versions)
       IN <<[project_id |-> f[v].story_project.id, version |-> v,
             snapshot_type |-> f[v].snapshot_type, name |-> f[v].name,
             description |-> f[v].description, node_count |-> f[v].node_count,
             created_at |-> f[v].created_at]>>
            \o rows_desc(f, versions \ {v})

list_snapshots(S, project_id) == rows_desc(S[project_id], DOMAIN S[project_id])

\* sorted(rows, key=version)
RECURSIVE sorted_by_version(_)
sorted_by_version(rows) ==
  IF rows = <<>> THEN <<>>
  ELSE LET i == CHOOSE k \in 1..Len(rows) :
                  \A j \in 1..Len(rows) :
                    rows[k].version < rows[j].version \/ (rows[k].version = rows[j].version /\ k <= j)
       IN <<rows[i]>> \o sorted_by_version(SubSeq(rows, 1, i - 1) \o SubSeq(rows, i + 1, Len(rows)))

\* VersionManager._get_latest_version
get_latest_version(S, project_id) ==
  LET rows == list_snapshots(S, project_id)
  IN IF rows = <<>> THEN 0 ELSE MaxOf({rows[i].version : i \in 1..Len(rows)})

RECURSIVE delete_rows(_, _, _)
delete_rows(S, project_id, rows) ==
  IF rows = <<>> THEN S
  ELSE delete_rows(delete_snapshot(S, project_id, Head(rows).version), project_id, Tail(rows))

\* a cleanup that prunes the oldest snapshots of any kind
cleanup_any_kind(S, cfg, project_id) ==
  LET rows == list_snapshots(S, project_id)
  IN IF Len(rows) <= cfg.max_auto_snapshots THEN S
     ELSE delete_rows(S, project_id,
                      SubSeq(sorted_by_version(rows), 1, Len(rows) - cfg.max_auto_snapshots))

\* VersionManager._cleanup_auto_snapshots
cleanup_auto_snapshots(S, cfg, project_id) ==
  LET rows == list_snapshots(S, project_id)
      autos == SelectSeq(rows, LAMBDA item : item.snapshot_type = "auto")
  IN IF Len(autos) <= cfg.max_auto_snapshots THEN S
     ELSE delete_rows(S, project_id,
                      SubSeq(sorted_by_version(autos), 1, Len(autos) - cfg.max_auto_snapshots))

\* VersionManager.create_snapshot
create_snapshot(S, cfg, project, graph, documents, snapshot_type, name, description, t) ==
  LET version == get_latest_version(S, project.id) + 1
      snapshot == IndexSnapshot(version, snapshot_type, name, description, project, graph, documents, t)
  IN [ok |-> TRUE, value |-> snapshot, created |-> <<snapshot>>,
      store |-> cleanup_auto_snapshots(save_snapshot(S, snapshot), cfg, project.id)]

\* a delete_version without the milestone test
delete_version_any_kind(S, project_id, version) ==
  IF version \notin DOMAIN S[project_id]
  THEN [ok |-> FALSE, value |-> "Snapshot not found", created |-> <<>>, store |-> S]
  ELSE [ok |-> TRUE, value |-> None, created |-> <<>>,
        store |-> delete_snapshot(S, project_id, version)]

\* VersionManager.delete_version
delete_version(S, project_id, version) ==
  LET target == SelectSeq(list_snapshots(S, project_id), LAMBDA item : item.version = version)
  IN IF target = <<>>
     THEN [ok |-> FALSE, value |-> "Snapshot not found", created |-> <<>>, store |-> S]
     ELSE IF target[1].snapshot_type = "milestone"
     THEN [ok |-> FALSE, value |-> "Milestone snapshots cannot be deleted", created |-> <<>>, store |-> S]
     ELSE [ok |-> TRUE, value |-> None, created |-> <<>>,
           store |-> delete_snapshot(S, project_id, version)]

\* VersionManager.import_snapshots
RECURSIVE import_snapshots(_, _)
import_snapshots(S, list) ==
  IF list = <<>> THEN [ok |-> TRUE, value |-> None, created |-> <<>>, store |-> S]
  ELSE import_snapshots(save_snapshot(S, Head(list)), Tail(list))

Abs(n) == IF n < 0 THEN -n ELSE n

\* a variant that takes the backup only when the change exceeds the threshold
create_pre_sync_snapshot_if_exceeds(S, cfg, project, graph, documents, old_node, new_node, t) ==
  IF old_node = None
  THEN [ok |-> TRUE, value |-> FALSE, created |-> <<>>, store |-> S]
  ELSE LET change_size == Abs(Len(old_node.content) - Len(new_node.content))
       IN IF change_size <= cfg.major_change_threshold
          THEN [ok |-> TRUE, value |-> FALSE, created |-> <<>>, store |-> S]
          ELSE [create_snapshot(S, cfg, project, graph, documents, "pre_sync",
                                Text("Pre-sync backup"), None, t)
                  EXCEPT !.value = TRUE]

\* VersionManager.create_pre_sync_snapshot_if_needed
create_pre_sync_snapshot_if_needed(S, cfg, project, graph, documents, old_node, new_node, t) ==
  IF old_node = None
  THEN [ok |-> TRUE, value |-> FALSE, created |-> <<>>, store |-> S]
  ELSE LET change_size == Abs(Len(old_node.content) - Len(new_node.content))
       IN IF change_size < cfg.major_change_threshold
          THEN [ok |-> TRUE, value |-> FALSE, created |-> <<>>, store |-> S]
          ELSE [create_snapshot(S, cfg, project, graph, documents, "pre_sync",
                                Text("Pre-sync backup"), None, t)
                  EXCEPT !.value = TRUE]

\* VersionStorage.update_snapshot_metadata
update_snapshot_metadata(S, project_id, version, name, snapshot_type, description) ==
  LET loaded == S[project_id][version]
      named == IF name # None THEN [loaded EXCEPT !.name = name] ELSE loaded
      described == IF description # None THEN [named EXCEPT !.description = description] ELSE named
      snapshot == IF snapshot_type # "" THEN [described EXCEPT !.snapshot_type = snapshot_type]
                  ELSE described
  IN [ok |-> TRUE, value |-> snapshot, created |-> <<>>, store |-> save_snapshot(S, snapshot)]

\* VersionManager.update_version_metadata; snapshot_type "" is no snapshot type
update_version_metadata(S, project_id, version, name, snapshot_type, description) ==
  LET target == SelectSeq(list_snapshots(S, project_id), LAMBDA item : item.version = version)
  IN IF target = <<>>
     THEN [ok |-> FALSE, value |-> "Snapshot not found", created |-> <<>>, store |-> S]
     ELSE update_snapshot_metadata(S, project_id, version, name,
                                   IF target[1].snapshot_type = "milestone" THEN "milestone"
                                   ELSE snapshot_type,
                                   description)

\* a comparison by object identity: the nodes of two loaded snapshots are never
\* the same object
nodes_equal_by_identity(first, second) == FALSE

\* VersionManager._nodes_equal
nodes_equal(first, second) == first = second

\* VersionManager._count_words
RECURSIVE count_words(_)
count_words(nodes) ==
  IF nodes = <<>> THEN 0
  ELSE Len(Head(nodes).content) + Len(Head(nodes).title) + Len(Head(nodes).location_tag)
         + count_words(Tail(nodes))

VersionDiff(nodes_added, nodes_modified, nodes_deleted, entities_added, entities_deleted, relations_added, relations_deleted, words_added, words_removed) ==
  [nodes_added |-> nodes_added, nodes_modified |-> nodes_modified,
   nodes_deleted |-> nodes_deleted, entities_added |-> entities_added,
   entities_deleted |-> entities_deleted, relations_added |-> relations_added,
   relations_deleted |-> relations_deleted, words_added |-> words_added,
   words_removed |-> words_removed]

\* VersionManager.compare_versions; the id lists built from Python sets
\* (entities, relations) are sets, the ones built from dicts are sequences
compare_versions(S, project_id, from_ver, to_ver) ==
  IF from_ver \notin DOMAIN S[project_id] \/ to_ver \notin DOMAIN S[project_id]
  THEN [ok |-> FALSE, value |-> "Snapshot not found", created |-> <<>>, store |-> S]
  ELSE LET before == S[project_id][from_ver]
           after == S[project_id][to_ver]
           before_nodes == dict_by_id(<<>>, before.story_project.nodes)
           after_nodes == dict_by_id(<<>>, after.story_project.nodes)
           node_of(nodes, id) == nodes[CHOOSE i \in 1..Len(nodes) : nodes[i].id = id]
           before_entities == IdsOfSeq(before.knowledge_graph.entities)
           after_entities == IdsOfSeq(after.knowledge_graph.entities)
           before_relations == IdsOfSeq(before.knowledge_graph.relations)
           after_relations == IdsOfSeq(after.knowledge_graph.relations)
           before_words == count_words(before.story_project.nodes)
           after_words == count_words(after.story_project.nodes)
       IN [ok |-> TRUE, created |-> <<>>, store |-> S,
           value |->
             VersionDiff(
               IdSeq(SelectSeq(after_nodes, LAMBDA n : n.id \notin IdsOfSeq(before_nodes))),
               IdSeq(SelectSeq(after_nodes,
                               LAMBDA n : /\ n.id \in IdsOfSeq(before_nodes)
                                          /\ ~nodes_equal(node_of(before_nodes, n.id), n))),
               IdSeq(SelectSeq(before_nodes, LAMBDA n : n.id \notin IdsOfSeq(after_nodes))),
               after_entities \ before_entities,
               before_entities \ after_entities,
               after_relations \ before_relations,
               before_relations \ after_relations,
               IF after_words >= before_words THEN after_words - before_words ELSE 0,
               IF after_words >= before_words THEN 0 ELSE before_words - after_words)]

\* VersionManager._create_auto_snapshots over the listed projects; fail_at is
\* the position of the project at which a storage or database call raises
\* (past the end of the list: none does)
RECURSIVE create_auto_snapshots(_, _, _, _, _, _, _)
create_auto_snapshots(S, cfg, projects, graphs, i, fail_at, t) ==
  IF i = fail_at
  THEN [ok |-> FALSE, value |-> "cycle failed", created |-> <<>>, store |-> S]
  ELSE IF i > Len(projects)
  THEN [ok |-> TRUE, value |-> None, created |-> <<>>, store |-> S]
  ELSE LET made == create_snapshot(S, cfg, projects[i].project, graphs[i],
                                   projects[i].documents, "auto", None, None, t)
           rest == create_auto_snapshots(made.store, cfg, projects, graphs, i + 1, fail_at, t)
       IN [rest EXCEPT !.created = made.created \o @]

(***************************************************************************)
(* Version manager inputs                                                  *)
(***************************************************************************)
MaxVersionOps == 2

\* the configurations a manager is built with
VersioningConfigs == {VersioningConfig(300, 2, cap) : cap \in {1, 2}}

\* the states of a project when a snapshot of it is taken: the project
\* record and its world documents
ProjectStateA(p) ==
  [project |-> StoryProject(p, <<SummaryNode("n1", <<"a">>, <<>>, <<>>)>>),
   documents |-> <<>>]

ProjectStateB(p) ==
  [project |-> StoryProject(p, <<SummaryNode("n1", <<"a", "b", "c">>, <<"L">>, <<>>),
                                 SummaryNode("n2", <<"a">>, <<>>, <<>>)>>),
   documents |-> <<"d1">>]

ProjectStates(p) == {ProjectStateA(p), ProjectStateB(p)}

\* the storage left by create_snapshot of a milestone while the graph of p1
\* was empty and of an automatic snapshot after its graph was built
StoredSnapshots ==
  [p \in Projects |->
     IF p = "p1"
     THEN (1 :> IndexSnapshot(1, "milestone", None, None, ProjectStateA(p).project,
                              empty_graph(p, 0), <<>>, 0))
            @@ (2 :> IndexSnapshot(2, "auto", None, None, ProjectStateB(p).project,
                                   StoredGraph, <<"d1">>, 0))
     ELSE <<>>]

\* the requests of main.py's create_project_version
CreateRequests ==
  {[state |-> st, snapshot_type |-> k] : st \in ProjectStates("p1"), k \in SnapshotTypes}
    \cup {[state |-> ProjectStateA("p2"), snapshot_type |-> "manual"]}

\* the versions a request names: the stored ones and one that is not stored
VersionArgs(p) == DOMAIN snapshots[p] \cup {get_latest_version(snapshots, p) + 1}

\* name and snapshot type of an update_version_metadata call
MetadataUpdates ==
  {[name |-> Text(<<"m">>), snapshot_type |-> ""]}
    \cup {[name |-> None, snapshot_type |-> k] : k \in SnapshotTypes}

\* the snapshot lists handed to import_snapshots
ImportLists ==
  {<<IndexSnapshot(1, "auto", None, None, ProjectStateB("p1").project, StoredGraph, <<"d1">>, 0)>>,
   <<IndexSnapshot(2, "manual", None, None, ProjectStateA("p2").project, empty_graph("p2", 0), <<>>, 0),
     IndexSnapshot(3, "auto", None, None, ProjectStateA("p2").project, empty_graph("p2", 0), <<>>, 0)>>}

\* the nodes of the sync requests: contents of 1, 3 and 4 characters
NewNodes ==
  {SummaryNode("n1", Rep(1, "x"), <<>>, <<>>), SummaryNode("n1", Rep(3, "x"), <<>>, <<>>),
   SummaryNode("n1", Rep(4, "x"), <<>>, <<>>), SummaryNode("n3", Rep(4, "x"), <<>>, <<>>)}

(***************************************************************************)
(* The version manager under the request handlers of main.py and its       *)
(* background task, each operation run to completion.                      *)
(***************************************************************************)
InitVersions ==
  /\ stored = [p \in Projects |-> IF p = "p1" THEN StoredGraph ELSE None]
  /\ now = 0
  /\ mem = None
  /\ last = NoOp
  /\ config = SyncConfig("debounced", 5, 10, 60)
  /\ pending_updates = <<>>
  /\ pending_old_nodes = <<>>
  /\ last_update_time = <<>>
  /\ run = None
  /\ ret = None
  /\ enqueued = {}
  /\ context = None
  /\ snapshots \in {[p \in Projects |-> <<>>], StoredSnapshots}
  /\ versioning_config \in VersioningConfigs
  /\ assigned = [p \in Projects |-> DOMAIN snapshots[p]]
  /\ vlast = NoOp
  /\ loop = "sleeping"
  /\ HandlersIdle

\* the end of an operation of the version manager
VDone(op, args, r) ==
  /\ vlast' = [op |-> op, ok |-> r.ok, args |-> args,
               result |-> IF r.ok THEN r.value ELSE None,
               error |-> IF r.ok THEN "" ELSE r.value]
  /\ snapshots' = r.store
  /\ assigned' = [p \in Projects |->
                    assigned[p] \cup {r.created[i].version :
                                        i \in {j \in 1..Len(r.created) : r.created[j].story_project.id = p}}]
  /\ now' = now + 1
  /\ UNCHANGED <<stored, graph_vars, queue_vars, retriever_vars, handler_vars, versioning_config>>

\* POST /api/projects/{project_id}/versions
CreateSnapshot ==
  /\ now < MaxVersionOps
  /\ \E req \in CreateRequests :
       VDone("create_snapshot",
             [project_id |-> req.state.project.id, snapshot_type |-> req.snapshot_type],
             create_snapshot(snapshots, versioning_config, req.state.project,
                             load_graph(req.state.project.id), req.state.documents,
                             req.snapshot_type, None, None, now))
  /\ UNCHANGED loop

\* DELETE /api/projects/{project_id}/versions/{version}
DeleteVersion ==
  /\ now < MaxVersionOps
  /\ \E version \in VersionArgs("p1") :
       VDone("delete_version", [project_id |-> "p1", version |-> version],
             delete_version(snapshots, "p1", version))
  /\ UNCHANGED loop

\* PUT /api/projects/{project_id}/versions/{version}
UpdateVersionMetadata ==
  /\ now < MaxVersionOps
  /\ \E version \in VersionArgs("p1"), u \in MetadataUpdates :
       VDone("update_version_metadata",
             [project_id |-> "p1", version |-> version, name |-> u.name,
              snapshot_type |-> u.snapshot_type],
             update_version_metadata(snapshots, "p1", version, u.name, u.snapshot_type, None))
  /\ UNCHANGED loop

\* a call of import_snapshots
ImportSnapshots ==
  /\ now < MaxVersionOps
  /\ \E list \in ImportLists :
       VDone("import_snapshots", [snapshots |-> list], import_snapshots(snapshots, list))
  /\ UNCHANGED loop

\* the call of create_pre_sync_snapshot_if_needed in the sync request handler:
\* the old node is the project's node with the id of the new one, if any
CreatePreSyncSnapshotIfNeeded ==
  /\ now < MaxVersionOps
  /\ \E st \in ProjectStates("p1"), new_node \in NewNodes :
       LET hit == SelectSeq(st.project.nodes, LAMBDA n : n.id = new_node.id)
           old_node == IF hit = <<>> THEN None ELSE hit[1]
       IN VDone("create_pre_sync_snapshot_if_needed",
                [project_id |-> "p1", old_node |-> old_node, new_node |-> new_node],
                create_pre_sync_snapshot_if_needed(snapshots, versioning_config, st.project,
                                                   load_graph("p1"), st.documents,
                                                   old_node, new_node, now))
  /\ UNCHANGED loop

\* GET /api/projects/{project_id}/versions/{from_ver}/diff/{to_ver}
CompareVersions ==
  /\ now < MaxVersionOps
  /\ \E from_ver \in VersionArgs("p1"), to_ver \in VersionArgs("p1") :
       VDone("compare_versions",
             [project_id |-> "p1", from_ver |-> from_ver, to_ver |-> to_ver],
             compare_versions(snapshots, "p1", from_ver, to_ver))
  /\ UNCHANGED loop

\* auto_snapshot_loop: asyncio.sleep returns
Wake ==
  /\ loop = "sleeping"
  /\ loop' = "running"
  /\ vlast' = [NoOp EXCEPT !.op = "sleep"]
  /\ UNCHANGED <<stored, now, graph_vars, queue_vars, retriever_vars, handler_vars>>
  /\ UNCHANGED <<snapshots, versioning_config, assigned>>

\* auto_snapshot_loop: the awaited _create_auto_snapshots returns or raises;
\* an exception leaves the coroutine, which has no handler
RunCycle ==
  /\ loop = "running"
  /\ now < MaxVersionOps
  /\ \E fail_at \in 1..3 :
       LET r == create_auto_snapshots(snapshots, versioning_config,
                                      <<ProjectStateA("p1"), ProjectStateA("p2")>>,
                                      <<load_graph("p1"), load_graph("p2")>>, 1, fail_at, now)
       IN /\ VDone("auto_snapshot_cycle", None, r)
          /\ loop' = IF r.ok THEN "sleeping" ELSE "terminated"

NextVersions ==
  \/ CreateSnapshot
  \/ DeleteVersion
  \/ UpdateVersionMetadata
  \/ ImportSnapshots
  \/ CreatePreSyncSnapshotIfNeeded
  \/ CompareVersions
  \/ Wake
  \/ RunCycle

SpecVersions == InitVersions /\ [][NextVersions]_vars

(***************************************************************************)
(* Version manager claims                                                  *)
(***************************************************************************)
\* C13: the version create_snapshot assigns in a project is strictly greater
\* than every version it assigned in that project before, so no version is
\* assigned twice, whatever create_snapshot, delete_version and the pruning of
\* automatic snapshots did in between.
C13_VersionsIncrease ==
  [][vlast'.op = "create_snapshot" =>
       \A v \in assigned[vlast'.args.project_id] : vlast'.result.version > v]_vars

\* the versions of the project's stored snapshots of a kind
VersionsOfKind(S, project_id, kind) ==
  {v \in DOMAIN S[project_id] : S[project_id][v].snapshot_type = kind}

\* C14: delete_version of a milestone snapshot fails with "Milestone snapshots
\* cannot be deleted" and leaves the storage as it was, and the pruning of
\* automatic snapshots run by create_snapshot (from a request, from the pre-sync
\* backup or from the background cycle) leaves every milestone snapshot stored
\* and unchanged.
C14_MilestoneKept ==
  [][/\ (/\ vlast'.op = "delete_version"
         /\ vlast'.args.version \in VersionsOfKind(snapshots, vlast'.args.project_id, "milestone"))
          => /\ ~vlast'.ok
             /\ vlast'.error = "Milestone snapshots cannot be deleted"
             /\ snapshots' = snapshots
     /\ vlast'.op \in {"delete_version", "create_snapshot",
                       "create_pre_sync_snapshot_if_needed", "auto_snapshot_cycle"}
          => \A p \in Projects : \A v \in VersionsOfKind(snapshots, p, "milestone") :
               /\ v \in DOMAIN snapshots'[p]
               /\ snapshots'[p][v] = snapshots[p][v]]_vars

\* delete_version of the milestone v1 has just failed, after create_snapshot
\* pruned the automatic snapshot v2 and kept the older milestone
C14_Witness ==
  /\ vlast.op = "delete_version" /\ ~vlast.ok
  /\ vlast.args.version = 1
  /\ vlast.error = "Milestone snapshots cannot be deleted"
  /\ DOMAIN snapshots["p1"] = {1, 3}
  /\ snapshots["p1"][1].snapshot_type = "milestone"
  /\ snapshots["p1"][3].snapshot_type = "auto"
  /\ 2 \in assigned["p1"]

\* C15: a milestone snapshot stays a milestone under update_version_metadata
\* with any snapshot type, and no later create_snapshot or import_snapshots
\* replaces the project, the graph or the documents stored at its project and
\* version.
C15_MilestoneImmutable ==
  [][vlast'.op \in {"update_version_metadata", "create_snapshot", "import_snapshots"}
       => \A p \in Projects : \A v \in VersionsOfKind(snapshots, p, "milestone") :
            /\ v \in DOMAIN snapshots'[p]
            /\ snapshots'[p][v].snapshot_type = "milestone"
            /\ snapshots'[p][v].story_project = snapshots[p][v].story_project
            /\ snapshots'[p][v].knowledge_graph = snapshots[p][v].knowledge_graph
            /\ snapshots'[p][v].world_documents = snapshots[p][v].world_documents]_vars

\* C16: after every successful create_snapshot the project holds at most
\* max_auto_snapshots automatic snapshots; the snapshots it pruned are automatic
\* ones, as many as exceeded the cap, each of a lower version than every
\* automatic snapshot kept; manual, milestone and pre-sync snapshots are left
\* stored and unchanged.
C16_AutoPruning ==
  [][(vlast'.op = "create_snapshot" /\ vlast'.ok) =>
       LET p == vlast'.args.project_id
           saved == save_snapshot(snapshots, vlast'.result)[p]
           autos == {v \in DOMAIN saved : saved[v].snapshot_type = "auto"}
           pruned == DOMAIN saved \ DOMAIN snapshots'[p]
           kept == VersionsOfKind(snapshots', p, "auto")
           cap == versioning_config.max_auto_snapshots
       IN /\ Cardinality(kept) <= cap
          /\ pruned \subseteq autos
          /\ Cardinality(pruned) = IF Cardinality(autos) > cap THEN Cardinality(autos) - cap ELSE 0
          /\ \A d \in pruned : \A k \in kept : d < k
          /\ \A v \in DOMAIN saved \ pruned : snapshots'[p][v] = saved[v]
          /\ DOMAIN snapshots'[p] \subseteq DOMAIN saved]_vars

\* create_snapshot of an automatic snapshot has just pruned the two older
\* automatic snapshots v1 and v2
C16_Witness ==
  /\ vlast.op = "create_snapshot" /\ vlast.ok
  /\ vlast.result.snapshot_type = "auto"
  /\ vlast.result.version = 3
  /\ DOMAIN snapshots["p1"] = {3}
  /\ assigned["p1"] = {1, 2, 3}

\* C17: a failure inside one cycle of the background auto-snapshot loop is
\* caught and does not terminate the loop: after a cycle that raised, the loop
\* is sleeping again and its next cycle still runs.
C17_LoopSurvivesFailure ==
  (vlast.op = "auto_snapshot_cycle" /\ ~vlast.ok) => loop = "sleeping"

\* C18: when the extraction oracle fails during extract_from_text or
\* extract_from_node, the extractor returns an empty result instead of
\* propagating the failure, so that sync_node_update completes without raising:
\* no sync_node_update ends with the oracle's error.
C18_OracleFailureAbsorbed ==
  last.op = "sync_node_update" => (last.ok \/ last.error # "oracle error")

\* C19 as stated: create_pre_sync_snapshot_if_needed creates a pre-sync
\* snapshot and returns true exactly when a prior node exists and the absolute
\* difference of the content lengths of the old and the new node exceeds
\* major_change_threshold; otherwise it stores nothing and returns false.
C19_PreSyncExceedsThreshold ==
  [][vlast'.op = "create_pre_sync_snapshot_if_needed" =>
       LET old_node == vlast'.args.old_node
           new_node == vlast'.args.new_node
           major == /\ old_node # None
                    /\ Abs(Len(old_node.content) - Len(new_node.content))
                         > versioning_config.major_change_threshold
           version == get_latest_version(snapshots, "p1") + 1
       IN /\ vlast'.ok
          /\ vlast'.result = major
          /\ major => /\ version \in DOMAIN snapshots'["p1"]
                      /\ snapshots'["p1"][version].snapshot_type = "pre_sync"
          /\ ~major => snapshots' = snapshots]_vars

\* C19, amended: create_pre_sync_snapshot_if_needed creates a pre-sync snapshot
\* and returns true exactly when a prior node exists and the absolute
\* difference of the content lengths of the old and the new node is at least
\* major_change_threshold; otherwise it stores nothing and returns false.
C19_PreSyncAtLeastThreshold ==
  [][vlast'.op = "create_pre_sync_snapshot_if_needed" =>
       LET old_node == vlast'.args.old_node
           new_node == vlast'.args.new_node
           major == /\ old_node # None
                    /\ Abs(Len(old_node.content) - Len(new_node.content))
                         >= versioning_config.major_change_threshold
           version == get_latest_version(snapshots, "p1") + 1
       IN /\ vlast'.ok
          /\ vlast'.result = major
          /\ major => /\ version \in DOMAIN snapshots'["p1"]
                      /\ snapshots'["p1"][version].snapshot_type = "pre_sync"
          /\ ~major => snapshots' = snapshots]_vars

\* a node of one character has just been replaced by one of three, a change of
\* exactly major_change_threshold, and the pre-sync snapshot was taken
C19_Witness ==
  /\ vlast.op = "create_pre_sync_snapshot_if_needed" /\ vlast.ok
  /\ vlast.args.old_node # None
  /\ Len(vlast.args.old_node.content) = 1
  /\ Len(vlast.args.new_node.content) = 3
  /\ versioning_config.major_change_threshold = 2
  /\ vlast.result = TRUE
  /\ \E v \in DOMAIN snapshots["p1"] : snapshots["p1"][v].snapshot_type = "pre_sync"

\* C20: compare_versions of a stored version with itself yields no added and
\* no deleted node, entity or relation id, no modified node, and zero words
\* added and removed.
C20_CompareSameVersion ==
  (/\ vlast.op = "compare_versions"
   /\ vlast.ok
   /\ vlast.args.from_ver = vlast.args.to_ver)
    => vlast.result = VersionDiff(<<>>, <<>>, <<>>, {}, {}, {}, {}, 0, 0)

\* version 2 of p1, a snapshot with two nodes, two entities and a relation, has
\* just been compared with itself
C20_Witness ==
  /\ vlast.op = "compare_versions" /\ vlast.ok
  /\ vlast.args.from_ver = 2 /\ vlast.args.to_ver = 2
  /\ Len(snapshots["p1"][2].story_project.nodes) = 2
  /\ Len(snapshots["p1"][2].knowledge_graph.entities) = 2
  /\ Len(snapshots["p1"][2].knowledge_graph.relations) = 1
  /\ vlast.result.nodes_modified = <<>>

(***************************************************************************)
(* Properties of sync_node_update, checked under SpecGraph                 *)
(***************************************************************************)
\* SequenceMatcher's ratio of the two node texts is above 0.95
RatioAbove95(old_node, new_node) ==
  LET a == node_text(old_node)
      b == node_text(new_node)
      M == matching_total(a, 1, Len(a) + 1, b, 1, Len(b) + 1)
  IN Len(a) + Len(b) = 0 \/ 200 * M > 95 * (Len(a) + Len(b))

\* C28: every sync_node_update that returns has re-indexed the node
\* (vector_updated = true); given an old node whose similarity to the new node
\* exceeds 0.95 it returns graph_updated = false and leaves the entities, the
\* relations and last_updated of the graph unchanged; given no old node, or a
\* similarity of at most 0.95, it runs the extraction and returns
\* graph_updated = true.
C28_InsignificantEdit ==
  [][(last'.op = "sync_node_update" /\ last'.ok) =>
       LET before == load_graph("p1")
           old_node == last'.args.old_node
           new_node == last'.args.new_node
       IN /\ last'.result.vector_updated
          /\ IF old_node # None /\ RatioAbove95(old_node, new_node)
             THEN /\ ~last'.result.graph_updated
                  /\ mem'.entities = before.entities
                  /\ mem'.relations = before.relations
                  /\ mem'.last_updated = before.last_updated
             ELSE /\ last'.result.graph_updated
                  /\ mem'.last_updated = now']_vars

\* an edit of the stored node n1 that kept its text has just been skipped,
\* the graph holding entities and a relation
C28_Witness ==
  /\ last.op = "sync_node_update" /\ last.ok
  /\ last.args.old_node # None
  /\ last.args.old_node = last.args.new_node
  /\ ~last.result.graph_updated
  /\ last.result.vector_updated
  /\ Len(mem.entities) = 2

\* the ids of the entities of g whose name or an alias occurs in the text,
\* case-insensitively
MentionedIn(text, g) ==
  {id \in EntityIdsOf(g) :
     \E i \in 1..Len(g.entities) :
       /\ g.entities[i].id = id
       /\ \E nm \in {g.entities[i].name} \cup g.entities[i].aliases :
            Contains(Lower(text), Lower(nm))}

\* C29: a sync_node_update of a significant edit reports as new exactly the
\* entities and relations whose ids are in the graph after the extraction and
\* not before, and as removed exactly the ids before and not after, together
\* with the ids of the entities whose name or alias occurred in the old
\* content and no longer occurs in the new one, each id once; the
\* post-extraction entities, relations and last_updated are in the caller's
\* graph.
C29_SignificantEditDiff ==
  [][(last'.op = "sync_node_update" /\ last'.ok /\ last'.result.graph_updated) =>
       LET before == load_graph("p1")
           old_node == last'.args.old_node
           new_node == last'.args.new_node
           res == last'.result
           gone == IF old_node = None THEN {}
                   ELSE MentionedIn(old_node.content, before)
                          \ MentionedIn(new_node.content, before)
       IN /\ IdsOfSeq(res.new_entities) = EntityIdsOf(mem') \ EntityIdsOf(before)
          /\ \A i \in 1..Len(res.new_entities) :
               \E k \in 1..Len(mem'.entities) : mem'.entities[k] = res.new_entities[i]
          /\ IdsOfSeq(res.new_relations) = RelationIdsOf(mem') \ RelationIdsOf(before)
          /\ \A i \in 1..Len(res.new_relations) :
               \E k \in 1..Len(mem'.relations) : mem'.relations[k] = res.new_relations[i]
          /\ Range(res.removed_entities) = (EntityIdsOf(before) \ EntityIdsOf(mem')) \cup gone
          /\ Len(res.removed_entities) = Cardinality(Range(res.removed_entities))
          /\ Range(res.removed_relations) = RelationIdsOf(before) \ RelationIdsOf(mem')
          /\ Len(res.removed_relations) = Cardinality(Range(res.removed_relations))
          /\ mem'.last_updated = now'
          /\ mem' = stored'["p1"]]_vars

\* a significant edit of a stored node has just been reconciled: the
\* extraction added an entity to a graph that had one, and the mention of an
\* entity was lost with the old content
C29_Witness ==
  /\ last.op = "sync_node_update" /\ last.ok
  /\ last.args.old_node # None
  /\ last.result.graph_updated
  /\ Len(last.result.new_entities) = 1
  /\ Len(last.result.removed_entities) = 1
  /\ Len(mem.entities) >= 2

(***************************************************************************)
(* Properties of merge_entities' relation dedupe, checked under SpecGraph  *)
(***************************************************************************)
\* the key of a relation: its unordered endpoint pair, its type and its name
UnorderedKey(r) == <<{r.source_id, r.target_id}, r.relation_type, r.relation_name>>

\* properties.strength * 1000 + len(description)
Strength1000PlusLen(r) == r.strength * 1000 + Len(r.description)

\* the first relation of the list with the highest score among those of key K
FirstBest(rels, K) ==
  rels[CHOOSE j \in 1..Len(rels) :
         /\ UnorderedKey(rels[j]) = K
         /\ \A h \in 1..Len(rels) : UnorderedKey(rels[h]) = K =>
              \/ Strength1000PlusLen(rels[h]) < Strength1000PlusLen(rels[j])
              \/ Strength1000PlusLen(rels[h]) = Strength1000PlusLen(rels[j]) /\ j <= h]

\* C30: after a merge_entities that returns, the graph holds at most one
\* relation per key (unordered endpoint pair, relation_type, relation_name),
\* and the relation kept for a key is, among the redirected relations of that
\* key, the one with the highest score strength * 1000 + len(description),
\* the first encountered on a tie.
C30_MergeDedupe ==
  [][(last'.op = "merge_entities" /\ last'.ok) =>
       LET before == load_graph("p1")
           from_id == last'.args.from_id
           into_id == last'.args.into_id
           End(id) == IF id = from_id THEN into_id ELSE id
           rels == [i \in 1..Len(before.relations) |->
                      [before.relations[i] EXCEPT !.source_id = End(@),
                                                  !.target_id = End(@)]]
       IN /\ \A i, j \in 1..Len(mem'.relations) :
               UnorderedKey(mem'.relations[i]) = UnorderedKey(mem'.relations[j]) => i = j
          /\ Range(mem'.relations)
               = {FirstBest(rels, UnorderedKey(rels[i])) : i \in 1..Len(rels)}]_vars

\* a merge has just collapsed two relations of one key of which the later had
\* the higher score, and the later one was kept
C30_Witness ==
  /\ last.op = "merge_entities" /\ last.ok
  /\ Len(mem.relations) = 1
  /\ mem.relations[1].id = "r2"
  /\ mem.relations[1].strength = 1

(***************************************************************************)
(* Properties of process_ready's graph accesses, checked under SpecQueue   *)
(***************************************************************************)
\* the positions of a call's accesses of one kind to one project's graph
AccessesOf(r, ev, project_id) ==
  {i \in 1..Len(r.log) : r.log[i].ev = ev /\ r.log[i].project = project_id}

\* the call loaded the project's graph at most once, before any
\* reconciliation of the project, and passed each reconciliation the graph the
\* previous one left (the first one the loaded graph)
SharedGraph(r, project_id) ==
  /\ Cardinality(AccessesOf(r, "load", project_id)) <= 1
  /\ \A i \in AccessesOf(r, "sync", project_id) :
       /\ i > 1
       /\ r.log[i - 1].project = project_id
       /\ r.log[i - 1].ev \in {"load", "sync"}
       /\ r.log[i].graph_in = r.log[i - 1].graph_out

\* save_graph was called once for the project if a node of it was
\* reconciled, and not at all otherwise
SavedOnceIffReconciled(r, project_id) ==
  Cardinality(AccessesOf(r, "save", project_id))
    = IF AccessesOf(r, "sync", project_id) # {} THEN 1 ELSE 0

\* every reconciled node of the project is out of the three pending maps,
\* unless it was enqueued again since the call read them
ReconciledRemoved(r, project_id) ==
  \A i \in AccessesOf(r, "sync", project_id) :
    \A k \in 1..Len(r.seen) :
      (r.seen[k].project = project_id /\ Quiet(r.seen[k], r.log[i].node_id))
        => Absent(project_id, r.log[i].node_id)

\* C27: a process_ready call loads each project's graph once, passes that same
\* graph to the reconciliation of every ready node in turn, each later node
\* being reconciled against the result of the earlier ones, calls save_graph
\* exactly once for a project if and only if at least one of its nodes was
\* reconciled, and removes every reconciled node from the three pending maps.
C27_SharedGraphSavedOnce ==
  (ret # None /\ ret.call = "process_ready") =>
    \A p \in Projects :
      /\ SharedGraph(ret, p)
      /\ SavedOnceIffReconciled(ret, p)
      /\ ReconciledRemoved(ret, p)

(***************************************************************************)
(* Conflict detector (conflict_detector.py).  The keywords of the source   *)
(* are Chinese words of one or two characters; each character is written   *)
(* as one capital letter, the same character as the same letter: the death *)
(* keywords are SW, SQ, HW, Z and XG and the reappearance keywords CN, NH,  *)
(* UE, RI and OF, where H ends NH and begins HW as in the source.  A       *)
(* conflict keeps its type, severity, node_ids and entity_ids; the         *)
(* description and the suggestion are left out.                            *)
(***************************************************************************)
ConflictNode(id, content, narrative_order, timeline_order, characters) ==
  [id |-> id, title |-> <<"t">>, content |-> content,
   narrative_order |-> narrative_order, timeline_order |-> timeline_order,
   location_tag |-> <<>>, characters |-> characters]

Conflict(type, node_ids, entity_ids) ==
  [type |-> type, severity |-> "warning", node_ids |-> node_ids, entity_ids |-> entity_ids]

death_keywords == <<(<<"S", "W">>), (<<"S", "Q">>), (<<"H", "W">>), (<<"Z">>), (<<"X", "G">>)>>

alive_keywords == <<(<<"C", "N">>), (<<"N", "H">>), (<<"U", "E">>), (<<"R", "I">>), (<<"O", "F">>)>>

\* any(keyword in content for keyword in keywords)
any_keyword_in(keywords, content) ==
  \E i \in 1..Len(keywords) : Contains(content, keywords[i])

\* one step of the stable sort: the node goes after every node whose
\* narrative_order is not greater
insert_by_narrative_order(acc, node) ==
  LET k == Cardinality({i \in 1..Len(acc) : acc[i].narrative_order <= node.narrative_order})
  IN SubSeq(acc, 1, k) \o <<node>> \o SubSeq(acc, k + 1, Len(acc))

RECURSIVE sort_fold(_, _)
sort_fold(acc, rest) ==
  IF rest = <<>> THEN acc
  ELSE sort_fold(insert_by_narrative_order(acc, Head(rest)), Tail(rest))

\* sorted(nodes, key=lambda node: node.narrative_order)
sorted_by_narrative_order(nodes) == sort_fold(<<>>, nodes)

\* a timeline check that compares every pair of the sorted nodes
check_timeline_all_pairs(nodes) ==
  IF Len(nodes) < 2 THEN <<>>
  ELSE LET sorted_nodes == sorted_by_narrative_order(nodes)
           pairs == [i \in 1..(Len(sorted_nodes) - 1) |-> <<sorted_nodes[i], sorted_nodes[i + 1]>>]
                      \o (IF Len(sorted_nodes) > 2
                          THEN <<(<<sorted_nodes[1], sorted_nodes[Len(sorted_nodes)]>>)>>
                          ELSE <<>>)
           bad == SelectSeq(pairs, LAMBDA pr : pr[2].timeline_order < pr[1].timeline_order)
       IN [i \in 1..Len(bad) |-> Conflict("timeline", <<bad[i][1].id, bad[i][2].id>>, <<>>)]

\* ConflictDetector.check_timeline_consistency
check_timeline_consistency(nodes) ==
  IF Len(nodes) < 2 THEN <<>>
  ELSE LET sorted_nodes == sorted_by_narrative_order(nodes)
           pairs == [i \in 1..(Len(sorted_nodes) - 1) |-> <<sorted_nodes[i], sorted_nodes[i + 1]>>]
           bad == SelectSeq(pairs, LAMBDA pr : pr[2].timeline_order < pr[1].timeline_order)
       IN [i \in 1..Len(bad) |-> Conflict("timeline", <<bad[i][1].id, bad[i][2].id>>, <<>>)]

\* min(nodes, key=lambda node: node.timeline_order): the first node of the
\* least timeline_order; ValueError on an empty list
min_by_timeline_order(nodes) ==
  IF nodes = <<>> THEN [ok |-> FALSE, value |-> "min() arg is an empty sequence"]
  ELSE [ok |-> TRUE,
        value |-> nodes[CHOOSE i \in 1..Len(nodes) :
                          /\ \A j \in 1..Len(nodes) : nodes[i].timeline_order <= nodes[j].timeline_order
                          /\ \A j \in 1..(i - 1) : nodes[j].timeline_order > nodes[i].timeline_order]]

\* a character check that measures from the first death mention of the list
check_character_from_first_death(character, mentions) ==
  LET death_nodes == SelectSeq(mentions, LAMBDA n : any_keyword_in(death_keywords, n.content))
      alive_nodes == SelectSeq(mentions, LAMBDA n : any_keyword_in(alive_keywords, n.content))
  IN IF death_nodes = <<>> \/ alive_nodes = <<>> THEN [ok |-> TRUE, value |-> <<>>]
     ELSE LET earliest_death == Head(death_nodes)
              conflicting_nodes == SelectSeq(alive_nodes,
                                     LAMBDA n : n.timeline_order > earliest_death.timeline_order)
          IN IF conflicting_nodes = <<>> THEN [ok |-> TRUE, value |-> <<>>]
             ELSE [ok |-> TRUE,
                   value |-> <<Conflict("character",
                                        <<earliest_death.id>> \o IdSeq(conflicting_nodes),
                                        <<character.id>>)>>]

\* ConflictDetector.check_character_consistency: [ok, value], ok = FALSE an
\* exception
check_character_consistency(character, mentions) ==
  LET death_nodes == SelectSeq(mentions, LAMBDA n : any_keyword_in(death_keywords, n.content))
      alive_nodes == SelectSeq(mentions, LAMBDA n : any_keyword_in(alive_keywords, n.content))
  IN IF death_nodes = <<>> \/ alive_nodes = <<>> THEN [ok |-> TRUE, value |-> <<>>]
     ELSE LET m == min_by_timeline_order(death_nodes)
          IN IF ~m.ok THEN m
             ELSE LET earliest_death == m.value
                      conflicting_nodes == SelectSeq(alive_nodes,
                                             LAMBDA n : n.timeline_order > earliest_death.timeline_order)
                  IN IF conflicting_nodes = <<>> THEN [ok |-> TRUE, value |-> <<>>]
                     ELSE [ok |-> TRUE,
                           value |-> <<Conflict("character",
                                                <<earliest_death.id>> \o IdSeq(conflicting_nodes),
                                                <<character.id>>)>>]

\* ConflictDetector._find_character_mentions
find_character_mentions(character, nodes) ==
  SelectSeq(nodes, LAMBDA n :
    \/ character.id \in Range(n.characters)
    \/ Contains(Lower(n.content), Lower(character.name))
    \/ \E al \in character.aliases : Contains(Lower(n.content), Lower(al)))

\* the loop of detect_conflicts over the character entities
RECURSIVE character_conflicts(_, _)
character_conflicts(characters, nodes) ==
  IF characters = <<>> THEN [ok |-> TRUE, value |-> <<>>]
  ELSE LET mentions == find_character_mentions(Head(characters), nodes)
           r == IF mentions = <<>> THEN [ok |-> TRUE, value |-> <<>>]
                ELSE check_character_consistency(Head(characters), mentions)
       IN IF ~r.ok THEN r
          ELSE LET rest == character_conflicts(Tail(characters), nodes)
               IN IF ~rest.ok THEN rest
                  ELSE [ok |-> TRUE, value |-> r.value \o rest.value]

\* ConflictDetector.detect_conflicts
detect_conflicts(nodes, graph) ==
  LET r == character_conflicts(SelectSeq(graph.entities, LAMBDA e : e.type = "character"), nodes)
  IN IF ~r.ok THEN r
     ELSE [ok |-> TRUE, value |-> check_timeline_consistency(nodes) \o r.value]

\* the timeline_order values of the model's nodes: 1..MaxTimeline
MaxTimeline == 3

NarrativeOrders == {1, 2, 3}

\* the contents and character lists of the model's nodes: a death keyword
\* with the character e2 listed, a reappearance keyword with the name of e2
\* in the text, both keywords with e2 listed, and a death keyword in a node
\* that does not mention e2
NodeKinds ==
  {[content |-> <<"Z">>, characters |-> <<"e2">>],
   [content |-> <<"a", "N", "H">>, characters |-> <<>>],
   [content |-> <<"N", "H", "W">>, characters |-> <<"e2">>],
   [content |-> <<"Z">>, characters |-> <<>>]}

ConflictNodes(id) ==
  {ConflictNode(id, k.content, no, tl, k.characters) :
     k \in NodeKinds, no \in NarrativeOrders, tl \in 1..MaxTimeline}

\* the node lists of a project: up to three nodes n1, n2, n3
NodeLists ==
  {<<>>} \cup {<<a>> : a \in ConflictNodes("n1")}
    \cup {<<a, b>> : a \in ConflictNodes("n1"), b \in ConflictNodes("n2")}
    \cup {<<a, b, c>> : a \in ConflictNodes("n1"), b \in ConflictNodes("n2"),
                        c \in ConflictNodes("n3")}

\* the character entity the checks are run for
TheCharacter == StoredGraph.entities[1]

(***************************************************************************)
(* The two checks of the conflict detector, each applied once to a         *)
(* project's nodes                                                         *)
(***************************************************************************)
InitConflicts ==
  /\ stored = [p \in Projects |-> IF p = "p1" THEN StoredGraph ELSE None]
  /\ now = 0
  /\ mem = None
  /\ last = NoOp
  /\ config = SyncConfig("debounced", 5, 10, 60)
  /\ pending_updates = <<>>
  /\ pending_old_nodes = <<>>
  /\ last_update_time = <<>>
  /\ run = None
  /\ ret = None
  /\ enqueued = {}
  /\ context = None
  /\ snapshots = [p \in Projects |-> <<>>]
  /\ versioning_config = None
  /\ assigned = [p \in Projects |-> {}]
  /\ vlast = NoOp
  /\ loop = "sleeping"
  /\ db \in NodeLists
  /\ indexed = {}
  /\ inflight = None
  /\ hlast = NoOp
  /\ disk = None

HDone(op, args, r) ==
  /\ hlast' = [op |-> op, ok |-> r.ok, args |-> args,
               result |-> IF r.ok THEN r.value ELSE None,
               error |-> IF r.ok THEN "" ELSE r.value]
  /\ UNCHANGED <<stored, now, graph_vars, queue_vars, retriever_vars, version_vars, disk>>

CheckTimelineConsistency ==
  /\ hlast.op = "none"
  /\ HDone("check_timeline_consistency", [nodes |-> db],
           [ok |-> TRUE, value |-> check_timeline_consistency(db)])
  /\ UNCHANGED <<db, indexed, inflight>>

CheckCharacterConsistency ==
  /\ hlast.op = "none"
  /\ LET mentions == find_character_mentions(TheCharacter, db)
     IN HDone("check_character_consistency",
              [character |-> TheCharacter, mentions |-> mentions],
              check_character_consistency(TheCharacter, mentions))
  /\ UNCHANGED <<db, indexed, inflight>>

NextConflicts ==
  \/ CheckTimelineConsistency
  \/ CheckCharacterConsistency

SpecConflicts == InitConflicts /\ [][NextConflicts]_vars

(***************************************************************************)
(* Conflict detector claims                                                *)
(***************************************************************************)
\* position i comes before position j when the nodes are put in
\* narrative_order, equal orders keeping the order of the list
Before(nodes, i, j) ==
  \/ nodes[i].narrative_order < nodes[j].narrative_order
  \/ nodes[i].narrative_order = nodes[j].narrative_order /\ i < j

\* the pairs of positions adjacent in narrative_order whose later node has
\* the smaller timeline_order
InvertedNeighbours(nodes) ==
  {pr \in (1..Len(nodes)) \X (1..Len(nodes)) :
     /\ Before(nodes, pr[1], pr[2])
     /\ \A k \in 1..Len(nodes) : ~(Before(nodes, pr[1], k) /\ Before(nodes, k, pr[2]))
     /\ nodes[pr[2]].timeline_order < nodes[pr[1]].timeline_order}

\* C22: check_timeline_consistency reports exactly one timeline conflict per
\* pair of nodes adjacent in narrative_order whose later node has the smaller
\* timeline_order, naming the two nodes, and nothing else; an inversion
\* between nodes that are not adjacent is not reported.
C22_TimelineAdjacentPairs ==
  hlast.op = "check_timeline_consistency" =>
    LET nodes == hlast.args.nodes
        found == hlast.result
    IN /\ Len(found) = Cardinality(InvertedNeighbours(nodes))
       /\ \A pr \in InvertedNeighbours(nodes) :
            Cardinality({i \in 1..Len(found) :
                           found[i].node_ids = <<nodes[pr[1]].id, nodes[pr[2]].id>>}) = 1
       /\ \A i \in 1..Len(found) :
            /\ found[i].type = "timeline"
            /\ found[i].entity_ids = <<>>

\* three nodes in timeline order 2, 3, 1 along the narrative: the inversion
\* between the first and the third is not adjacent and one conflict, for the
\* second and the third, is reported
C22_Witness ==
  /\ hlast.op = "check_timeline_consistency"
  /\ Len(hlast.args.nodes) = 3
  /\ \A i \in 1..3 : hlast.args.nodes[i].narrative_order = i
  /\ hlast.args.nodes[1].timeline_order = 2
  /\ hlast.args.nodes[2].timeline_order = 3
  /\ hlast.args.nodes[3].timeline_order = 1
  /\ Len(hlast.result) = 1
  /\ hlast.result[1].node_ids = <<"n2", "n3">>

IsDeath(n) == \E i \in 1..Len(death_keywords) : Contains(n.content, death_keywords[i])

IsReappearance(n) == \E i \in 1..Len(alive_keywords) : Contains(n.content, alive_keywords[i])

\* C23: check_character_consistency reports a character contradiction exactly
\* when the mentions hold a death-indicating node and a reappearance-
\* indicating node whose timeline_order is greater than the least
\* timeline_order of the death-indicating ones; the conflict names a
\* death-indicating node of that least timeline_order, then every such
\* reappearance node, and the character.
C23_CharacterContradiction ==
  (hlast.op = "check_character_consistency" /\ hlast.ok) =>
    LET mentions == hlast.args.mentions
        deaths == {i \in 1..Len(mentions) : IsDeath(mentions[i])}
        least == CHOOSE t \in {mentions[i].timeline_order : i \in deaths} :
                   \A i \in deaths : t <= mentions[i].timeline_order
        later == IF deaths = {} THEN <<>>
                 ELSE SelectSeq(mentions, LAMBDA n : IsReappearance(n) /\ n.timeline_order > least)
        found == hlast.result
    IN IF later = <<>> THEN found = <<>>
       ELSE /\ Len(found) = 1
            /\ found[1].type = "character"
            /\ found[1].entity_ids = <<hlast.args.character.id>>
            /\ \E i \in deaths :
                 /\ mentions[i].timeline_order = least
                 /\ found[1].node_ids = <<mentions[i].id>> \o IdSeq(later)

\* a contradiction has been reported for three mentions of which the second
\* is the earliest death and the two others are later reappearances
C23_Witness ==
  /\ hlast.op = "check_character_consistency" /\ hlast.ok
  /\ Len(hlast.result) = 1
  /\ hlast.result[1].node_ids = <<"n2", "n1", "n3">>

(***************************************************************************)
(* sync_node of main.py in immediate graph mode, run to completion.  The   *)
(* generation workflow is an input: it raises, or it returns the project   *)
(* with the request's node put in place.  The notifications are left out.  *)
(***************************************************************************)
SyncNodeResponse(nodes, sync_result, conflicts, sync_status, raised_in) ==
  [project |-> nodes, sync_result |-> sync_result, conflicts |-> conflicts,
   sync_status |-> sync_status, raised_in |-> raised_in]

FailedSync == SyncResult(FALSE, FALSE, FALSE, <<>>, <<>>, <<>>, <<>>)

\* a handler that runs the conflict detector first and writes nothing when
\* it reports a conflict
sync_node_blocked_by_conflicts(nodes, S, cfg, st, node, workflow_ok, answer, entity_uuids, order, t) ==
  LET hit == SelectSeq(nodes, LAMBDA n : n.id = node.id)
      old_node == IF hit = <<>> THEN None ELSE hit[1]
      updated == IF hit = <<>> THEN Append(nodes, node)
                 ELSE [i \in 1..Len(nodes) |-> IF nodes[i].id = node.id THEN node ELSE nodes[i]]
      current_graph == load_from(st, "p1", t)
      respond(pre, r, d) ==
        IF ~workflow_ok
        THEN [ok |-> FALSE, value |-> "WorkflowError", db |-> nodes, pre |-> pre,
              stored |-> st, graph |-> None]
        ELSE
          IF d.value # <<>>
          THEN [ok |-> TRUE, db |-> nodes, pre |-> pre, stored |-> st, graph |-> current_graph,
                value |-> SyncNodeResponse(nodes, FailedSync, d.value, "failed", "")]
          ELSE IF ~r.ok
          THEN [ok |-> TRUE, db |-> updated, pre |-> pre, stored |-> st, graph |-> current_graph,
                value |-> SyncNodeResponse(updated, FailedSync, <<>>, "failed", "sync_node_update")]
          ELSE [ok |-> TRUE, db |-> updated, pre |-> pre,
                stored |-> [st EXCEPT !["p1"] = save_graph(r.graph, t)], graph |-> r.graph,
                value |-> SyncNodeResponse(updated, r.result, d.value, "completed", "")]
      reconciled(pre, r) == respond(pre, r, detect_conflicts(updated, r.graph))
  IN reconciled(create_pre_sync_snapshot_if_needed(S, cfg, StoryProject("p1", nodes),
                                                   current_graph, <<>>, old_node, node, t),
                sync_node_update("p1", old_node, node, current_graph, TRUE, TRUE,
                                 answer, entity_uuids, <<>>, order, t))

\* sync_node, lines 154-182 and 278-322: [ok, value, db, pre, stored, graph];
\* ok = FALSE is the request failing with the workflow's error, value the
\* response, raised_in the call whose exception the handler caught
sync_node(nodes, S, cfg, st, node, workflow_ok, answer, entity_uuids, order, t) ==
  LET hit == SelectSeq(nodes, LAMBDA n : n.id = node.id)
      old_node == IF hit = <<>> THEN None ELSE hit[1]
      updated == IF hit = <<>> THEN Append(nodes, node)
                 ELSE [i \in 1..Len(nodes) |-> IF nodes[i].id = node.id THEN node ELSE nodes[i]]
      current_graph == load_from(st, "p1", t)
      respond(pre, r, d) ==
        IF ~workflow_ok
        THEN [ok |-> FALSE, value |-> "WorkflowError", db |-> nodes, pre |-> pre,
              stored |-> st, graph |-> None]
        ELSE
          IF ~r.ok
          THEN [ok |-> TRUE, db |-> updated, pre |-> pre, stored |-> st, graph |-> current_graph,
                value |-> SyncNodeResponse(updated, FailedSync, <<>>, "failed", "sync_node_update")]
          ELSE IF ~d.ok
          THEN [ok |-> TRUE, db |-> updated, pre |-> pre,
                stored |-> [st EXCEPT !["p1"] = save_graph(r.graph, t)], graph |-> r.graph,
                value |-> SyncNodeResponse(updated, [r.result EXCEPT !.success = FALSE], <<>>,
                                           "failed", "detect_conflicts")]
          ELSE [ok |-> TRUE, db |-> updated, pre |-> pre,
                stored |-> [st EXCEPT !["p1"] = save_graph(r.graph, t)], graph |-> r.graph,
                value |-> SyncNodeResponse(updated, r.result, d.value, "completed", "")]
      reconciled(pre, r) == respond(pre, r, detect_conflicts(updated, r.graph))
  IN reconciled(create_pre_sync_snapshot_if_needed(S, cfg, StoryProject("p1", nodes),
                                                   current_graph, <<>>, old_node, node, t),
                sync_node_update("p1", old_node, node, current_graph, TRUE, TRUE,
                                 answer, entity_uuids, <<>>, order, t))

\* the nodes of the requests
SyncPayloads ==
  {ConflictNode("n1", <<"a", "N", "H">>, 1, MaxTimeline, <<>>),
   ConflictNode("n2", <<"Z">>, 2, 1, <<"e2">>)}

\* the projects of the database: up to two nodes
StoredNodeLists ==
  {<<>>} \cup {<<a>> : a \in ConflictNodes("n1")}
    \cup {<<a, b>> : a \in ConflictNodes("n1"), b \in ConflictNodes("n2")}

InitSyncNode ==
  /\ stored \in {[p \in Projects |-> None],
                 [p \in Projects |-> IF p = "p1" THEN StoredGraph ELSE None]}
  /\ now = 0
  /\ mem = None
  /\ last = NoOp
  /\ config = SyncConfig("immediate", 5, 10, 60)
  /\ pending_updates = <<>>
  /\ pending_old_nodes = <<>>
  /\ last_update_time = <<>>
  /\ run = None
  /\ ret = None
  /\ enqueued = {}
  /\ context = None
  /\ snapshots = [p \in Projects |-> <<>>]
  /\ versioning_config = VersioningConfig(300, 2, 1)
  /\ assigned = [p \in Projects |-> {}]
  /\ vlast = NoOp
  /\ loop = "sleeping"
  /\ db \in StoredNodeLists
  /\ indexed = {}
  /\ inflight = None
  /\ hlast = NoOp
  /\ disk = None

\* POST /api/sync_node
SyncNode ==
  /\ hlast.op = "none"
  /\ \E node \in SyncPayloads, workflow_ok \in BOOLEAN, answer \in QueueAnswers :
       LET g == load_graph("p1")
           hit == SelectSeq(db, LAMBDA n : n.id = node.id)
           old_node == IF hit = <<>> THEN None ELSE hit[1]
           eu == <<fresh_id(EntityIdPool, EntityIdsOf(g))>>
       IN /\ ~workflow_ok => answer = OracleFail
          /\ \E order \in Orders(mention_removed(old_node, node, g)) :
               LET responded(r) ==
                     /\ hlast' = [op |-> "sync_node", ok |-> r.ok, args |-> [node |-> node],
                                  result |-> IF r.ok THEN r.value ELSE None,
                                  error |-> IF r.ok THEN "" ELSE r.value]
                     /\ db' = r.db
                     /\ stored' = r.stored
                     /\ mem' = r.graph
                     /\ snapshots' = r.pre.store
                     /\ assigned' = [assigned EXCEPT !["p1"] =
                                       @ \cup {r.pre.created[i].version : i \in 1..Len(r.pre.created)}]
               IN responded(sync_node(db, snapshots, versioning_config, stored, node,
                                      workflow_ok, answer, eu, order, now + 1))
  /\ now' = now + 1
  /\ UNCHANGED <<last, queue_vars, retriever_vars, versioning_config, vlast, loop, indexed, inflight, disk>>

NextSyncNode ==
  \/ SyncNode

SpecSyncNode == InitSyncNode /\ [][NextSyncNode]_vars

RECURSIVE adjacency_of(_, _)
adjacency_of(relations, id) ==
  IF relations = <<>> THEN <<>>
  ELSE (IF Head(relations).source_id = id THEN <<Head(relations)>> ELSE <<>>)
         \o (IF Head(relations).target_id = id THEN <<Head(relations)>> ELSE <<>>)
         \o adjacency_of(Tail(relations), id)

other_end(relation, current) ==
  IF relation.source_id = current THEN relation.target_id ELSE relation.source_id

\* the for loop of find_path over the relations of the entity taken from the
\* queue
RECURSIVE expand(_, _, _, _, _, _)
expand(adj, current, path, visited, queue, b) ==
  IF adj = <<>> THEN [found |-> FALSE, path |-> <<>>, visited |-> visited, queue |-> queue]
  ELSE LET relation == Head(adj)
           next_id == other_end(relation, current)
       IN IF next_id \in visited THEN expand(Tail(adj), current, path, visited, queue, b)
          ELSE IF next_id = b
          THEN [found |-> TRUE, path |-> Append(path, relation), visited |-> visited,
                queue |-> queue]
          ELSE expand(Tail(adj), current, path, visited \cup {next_id},
                      Append(queue, [id |-> next_id, path |-> Append(path, relation)]), b)

\* the while loop of find_path
RECURSIVE path_search(_, _, _, _)
path_search(queue, visited, relations, b) ==
  IF queue = <<>> THEN <<>>
  ELSE LET e == expand(adjacency_of(relations, Head(queue).id), Head(queue).id,
                       Head(queue).path, visited, Tail(queue), b)
       IN IF e.found THEN e.path ELSE path_search(e.queue, e.visited, relations, b)

\* a search that follows each relation to its end before trying the next
RECURSIVE depth_first(_, _, _, _, _, _)
depth_first(relations, adj, current, path, visited, b) ==
  IF adj = <<>> THEN [found |-> FALSE, path |-> <<>>, visited |-> visited]
  ELSE LET relation == Head(adj)
           next_id == other_end(relation, current)
       IN IF next_id \in visited THEN depth_first(relations, Tail(adj), current, path, visited, b)
          ELSE IF next_id = b
          THEN [found |-> TRUE, path |-> Append(path, relation), visited |-> visited]
          ELSE LET deep == depth_first(relations, adjacency_of(relations, next_id), next_id,
                                       Append(path, relation), visited \cup {next_id}, b)
               IN IF deep.found THEN deep
                  ELSE depth_first(relations, Tail(adj), current, path, deep.visited, b)

find_path_depth_first(relations, entity_a_id, entity_b_id) ==
  IF entity_a_id = entity_b_id THEN <<>>
  ELSE depth_first(relations, adjacency_of(relations, entity_a_id), entity_a_id, <<>>,
                   {entity_a_id}, entity_b_id).path

\* GraphRetriever.find_path
find_path(relations, entity_a_id, entity_b_id) ==
  IF entity_a_id = entity_b_id THEN <<>>
  ELSE path_search(<<[id |-> entity_a_id, path |-> <<>>]>>, {entity_a_id}, relations, entity_b_id)

\* the graphs searched: up to MaxPathRelations relations r1, r2, ... between
\* the entities e1, e2, e3, loops and parallel relations included
MaxPathRelations == 3

PathRelationIds == <<"r1", "r2", "r3", "r4", "r5">>

PathRelations ==
  UNION {[1..n -> EntityIds \X EntityIds] : n \in 0..MaxPathRelations}

PathGraph(ends) ==
  KnowledgeGraph("p1", <<>>,
                 [i \in 1..Len(ends) |->
                    Relation(PathRelationIds[i], ends[i][1], ends[i][2], "friend", <<"x">>, <<>>, 0, {})],
                 0)

\* the ids asked about: the entities and an id the graph does not hold
QueryIds == EntityIds \cup {"e9"}

InitPaths ==
  /\ stored = [p \in Projects |-> None]
  /\ now = 0
  /\ \E ends \in PathRelations : mem = PathGraph(ends)
  /\ last = NoOp
  /\ config = SyncConfig("debounced", 5, 10, 60)
  /\ pending_updates = <<>>
  /\ pending_old_nodes = <<>>
  /\ last_update_time = <<>>
  /\ run = None
  /\ ret = None
  /\ enqueued = {}
  /\ OtherIdle

\* a call of find_path on the retriever's graph
FindPath ==
  /\ hlast.op = "none"
  /\ \E a \in QueryIds, b \in QueryIds :
       HDone("find_path", [relations |-> mem.relations, a |-> a, b |-> b],
             [ok |-> TRUE, value |-> find_path(mem.relations, a, b)])
  /\ UNCHANGED <<db, indexed, inflight>>

NextPaths ==
  \/ FindPath

SpecPaths == InitPaths /\ [][NextPaths]_vars

\* the entities within k relations of the entities of S, whatever the
\* direction of the relations
RECURSIVE Within(_, _, _)
Within(relations, S, k) ==
  IF k = 0 THEN S
  ELSE Within(relations,
              S \cup {relations[i].target_id : i \in {j \in 1..Len(relations) : relations[j].source_id \in S}}
                \cup {relations[i].source_id : i \in {j \in 1..Len(relations) : relations[j].target_id \in S}},
              k - 1)

\* the entity a walk along the path from the given entity ends at, "" when
\* a relation of the path does not touch the entity reached
RECURSIVE WalkEnd(_, _)
WalkEnd(path, current) ==
  IF path = <<>> THEN current
  ELSE IF current \notin {Head(path).source_id, Head(path).target_id} THEN ""
  ELSE WalkEnd(Tail(path), other_end(Head(path), current))

\* C24: find_path(a, b) returns the empty path when a = b or when b cannot
\* be reached from a over the relations taken as undirected; otherwise it
\* returns relations of the graph that lead from a to b, each starting where
\* the previous one ended, as few as any path from a to b has.
C24_ShortestPath ==
  hlast.op = "find_path" =>
    LET relations == hlast.args.relations
        a == hlast.args.a
        b == hlast.args.b
        path == hlast.result
    IN IF a = b \/ b \notin Within(relations, {a}, Len(relations))
       THEN path = <<>>
       ELSE /\ path # <<>>
            /\ \A i \in 1..Len(path) : \E k \in 1..Len(relations) : relations[k] = path[i]
            /\ WalkEnd(path, a) = b
            /\ b \notin Within(relations, {a}, Len(path) - 1)

\* with the relations e1-e2, e2-e3, e1-e3 listed in this order the path from
\* e1 to e3 is the single relation r3, not the two listed before it
C24_Witness ==
  /\ hlast.op = "find_path"
  /\ hlast.args.a = "e1" /\ hlast.args.b = "e3"
  /\ Len(hlast.args.relations) = 3
  /\ hlast.args.relations[1].source_id = "e1" /\ hlast.args.relations[1].target_id = "e2"
  /\ hlast.args.relations[2].source_id = "e3" /\ hlast.args.relations[2].target_id = "e2"
  /\ hlast.args.relations[3].source_id = "e3" /\ hlast.args.relations[3].target_id = "e1"
  /\ IdSeq(hlast.result) = <<"r3">>

(***************************************************************************)
(* IndexSyncManager.full_reindex (index_sync.py)                           *)
(***************************************************************************)
\* NodeIndexer.index_project: the ids in the index afterwards and the count
\* returned
index_project(idx, nodes) ==
  IF nodes = <<>> THEN [indexed |-> idx, count |-> 0]
  ELSE [indexed |-> idx \cup IdsOfSeq(nodes), count |-> Len(nodes)]

\* the loop of build_full_graph: answers and uuids hold the oracle's answer
\* and the fresh ids for each node in turn
RECURSIVE build_fold(_, _, _, _, _)
build_fold(graph, nodes, has_api_key, answers, uuids) ==
  IF nodes = <<>> THEN [ok |-> TRUE, graph |-> graph]
  ELSE LET r == extract_from_node(Head(nodes), has_api_key, Head(answers), Head(uuids), <<>>)
       IN IF ~r.ok THEN [ok |-> FALSE, graph |-> graph]
          ELSE build_fold([graph EXCEPT !.entities = @ \o r.result.new_entities,
                                        !.relations = @ \o r.result.new_relations],
                          Tail(nodes), has_api_key, Tail(answers), Tail(uuids))

\* GraphExtractor.build_full_graph: [ok, graph]
build_full_graph(project_id, nodes, updated_at, has_api_key, answers, uuids) ==
  build_fold(KnowledgeGraph(project_id, <<>>, <<>>, updated_at), nodes, has_api_key, answers, uuids)

\* IndexSyncManager.full_reindex: [ok, value, indexed, graph], graph the
\* graph it built
full_reindex(project_id, nodes, updated_at, idx, has_api_key, answers, uuids) ==
  LET ix == index_project(idx, nodes)
      built == build_full_graph(project_id, nodes, updated_at, has_api_key, answers, uuids)
  IN IF ~built.ok
     THEN [ok |-> FALSE, value |-> "oracle error", indexed |-> ix.indexed, graph |-> None]
     ELSE [ok |-> TRUE, indexed |-> ix.indexed, graph |-> built.graph,
           value |-> SyncResult(TRUE, ix.count > 0, TRUE, built.graph.entities,
                                built.graph.relations, <<>>, <<>>)]

\* the projects re-indexed: no node, one node, or the nodes n1 and n2
ReindexProjects ==
  {<<>>} \cup {<<n>> : n \in StoryNodes}
    \cup {<<a, b>> : a \in {n \in StoryNodes : n.id = "n1"}, b \in {n \in StoryNodes : n.id = "n2"}}

InitReindex ==
  /\ stored \in {[p \in Projects |-> None],
                 [p \in Projects |-> IF p = "p1" THEN StoredGraph ELSE None]}
  /\ now = 0
  /\ mem = None
  /\ last = NoOp
  /\ config = SyncConfig("debounced", 5, 10, 60)
  /\ pending_updates = <<>>
  /\ pending_old_nodes = <<>>
  /\ last_update_time = <<>>
  /\ run = None
  /\ ret = None
  /\ enqueued = {}
  /\ context = None
  /\ snapshots = [p \in Projects |-> <<>>]
  /\ versioning_config = None
  /\ assigned = [p \in Projects |-> {}]
  /\ vlast = NoOp
  /\ loop = "sleeping"
  /\ db \in ReindexProjects
  /\ indexed \in {{}, {"n1"}, {"n3"}}
  /\ inflight = None
  /\ hlast = NoOp
  /\ disk = None

\* a caller of full_reindex with the project of the database
FullReindex ==
  /\ hlast.op = "none"
  /\ \E has_api_key \in BOOLEAN, answers \in [1..Len(db) -> QueueAnswers] :
       LET r == full_reindex("p1", db, 0, indexed, has_api_key, answers,
                             [i \in 1..Len(db) |-> <<IF i = 1 THEN "e3" ELSE "e4">>])
       IN /\ ~has_api_key => \A i \in 1..Len(db) : answers[i] = ExtractionResult(<<>>, <<>>)
          /\ HDone("full_reindex", [nodes |-> db], r)
          /\ indexed' = r.indexed
  /\ UNCHANGED <<db, inflight>>

NextReindex ==
  \/ FullReindex

SpecReindex == InitReindex /\ [][NextReindex]_vars

\* C25: after a full_reindex of a project that returns, the graph that
\* load_graph gives holds exactly the entities and relations that
\* build_full_graph produced, and every node of the project is in the search
\* index.
C25_ReindexReplacesGraph ==
  (hlast.op = "full_reindex" /\ hlast.ok) =>
    /\ load_graph("p1").entities = hlast.result.new_entities
    /\ load_graph("p1").relations = hlast.result.new_relations
    /\ \A i \in 1..Len(hlast.args.nodes) : hlast.args.nodes[i].id \in indexed

(***************************************************************************)
(* sync_node in immediate graph mode beside a graph editor request.  The   *)
(* handlers run on one event loop: sync_node is suspended at its await of  *)
(* sync_node_update (the index and the oracle are awaited), between its    *)
(* load_graph and its save_graph; a graph editor handler has no suspension *)
(* between its load_graph and its save_graph (GraphEditor awaits nothing). *)
(***************************************************************************)
\* sync_node up to its await of sync_node_update, the workflow having
\* returned: the locals it holds across the await
sync_node_to_await(nodes, S, cfg, st, node, t) ==
  LET hit == SelectSeq(nodes, LAMBDA n : n.id = node.id)
      old_node == IF hit = <<>> THEN None ELSE hit[1]
  IN [pre |-> create_pre_sync_snapshot_if_needed(S, cfg, StoryProject("p1", nodes),
                                                 load_from(st, "p1", t), <<>>, old_node, node, t),
      db |-> IF hit = <<>> THEN Append(nodes, node)
             ELSE [i \in 1..Len(nodes) |-> IF nodes[i].id = node.id THEN node ELSE nodes[i]],
      old_node |-> old_node, node |-> node, graph |-> load_from(st, "p1", t)]

\* a handler that loads the graph again once sync_node_update is due
sync_node_reloading(loc, st, answer, entity_uuids, order, t) ==
  LET respond(r, d) ==
        IF ~r.ok
        THEN [stored |-> st, graph |-> loc.graph,
              value |-> SyncNodeResponse(loc.db, FailedSync, <<>>, "failed", "sync_node_update")]
        ELSE [stored |-> [st EXCEPT !["p1"] = save_graph(r.graph, t)], graph |-> r.graph,
              value |-> SyncNodeResponse(loc.db, r.result, d.value, "completed", "")]
      reconciled(r) == respond(r, detect_conflicts(loc.db, r.graph))
  IN reconciled(sync_node_update("p1", loc.old_node, loc.node, load_from(st, "p1", t), TRUE, TRUE,
                                 answer, entity_uuids, <<>>, order, t))

\* sync_node from the completion of its await of sync_node_update, lines
\* 281-316: [stored, graph, value]
sync_node_from_await(loc, st, answer, entity_uuids, order, t) ==
  LET respond(r, d) ==
        IF ~r.ok
        THEN [stored |-> st, graph |-> loc.graph,
              value |-> SyncNodeResponse(loc.db, FailedSync, <<>>, "failed", "sync_node_update")]
        ELSE [stored |-> [st EXCEPT !["p1"] = save_graph(r.graph, t)], graph |-> r.graph,
              value |-> SyncNodeResponse(loc.db, r.result, d.value, "completed", "")]
      reconciled(r) == respond(r, detect_conflicts(loc.db, r.graph))
  IN reconciled(sync_node_update("p1", loc.old_node, loc.node, loc.graph, TRUE, TRUE,
                                 answer, entity_uuids, <<>>, order, t))

InitRace ==
  /\ stored = [p \in Projects |-> IF p = "p1" THEN StoredGraph ELSE None]
  /\ now = 0
  /\ mem = None
  /\ last = NoOp
  /\ config = SyncConfig("immediate", 5, 10, 60)
  /\ pending_updates = <<>>
  /\ pending_old_nodes = <<>>
  /\ last_update_time = <<>>
  /\ run = None
  /\ ret = None
  /\ enqueued = {}
  /\ context = None
  /\ snapshots = [p \in Projects |-> <<>>]
  /\ versioning_config = VersioningConfig(300, 2, 1)
  /\ assigned = [p \in Projects |-> {}]
  /\ vlast = NoOp
  /\ loop = "sleeping"
  /\ db \in {<<>>, <<ConflictNode("n1", <<"Z">>, 1, 1, <<"e2">>)>>}
  /\ indexed = {}
  /\ inflight = [sync |-> [pc |-> "idle"], edit |-> [pc |-> "idle"]]
  /\ hlast = NoOp
  /\ disk = None

\* POST /api/sync_node up to the await of sync_node_update
SyncNodeLoad ==
  /\ inflight.sync.pc = "idle"
  /\ \E node \in SyncPayloads :
       LET suspended(loc) ==
             /\ inflight' = [inflight EXCEPT !.sync = [pc |-> "awaiting", loc |-> loc]]
             /\ db' = loc.db
             /\ snapshots' = loc.pre.store
             /\ assigned' = [assigned EXCEPT !["p1"] =
                               @ \cup {loc.pre.created[i].version : i \in 1..Len(loc.pre.created)}]
       IN suspended(sync_node_to_await(db, snapshots, versioning_config, stored, node, now + 1))
  /\ now' = now + 1
  /\ UNCHANGED <<stored, graph_vars, queue_vars, retriever_vars, versioning_config, vlast, loop, indexed, hlast, disk>>

\* the awaited sync_node_update completes and sync_node runs to its return
SyncNodeSave ==
  /\ inflight.sync.pc = "awaiting"
  /\ \E answer \in QueueAnswers :
       LET loc == inflight.sync.loc
           eu == <<fresh_id(EntityIdPool, EntityIdsOf(loc.graph))>>
       IN \E order \in Orders(mention_removed(loc.old_node, loc.node, loc.graph)) :
            LET responded(r) ==
                  /\ hlast' = [op |-> "sync_node", ok |-> TRUE, args |-> [node |-> loc.node],
                               result |-> r.value, error |-> ""]
                  /\ stored' = r.stored
                  /\ mem' = r.graph
                  /\ inflight' = [inflight EXCEPT !.sync = [pc |-> "done", loc |-> loc]]
            IN responded(sync_node_from_await(loc, stored, answer, eu, order, now + 1))
  /\ now' = now + 1
  /\ UNCHANGED <<last, queue_vars, retriever_vars, version_vars, db, indexed, disk>>

\* the end of a graph editor handler: the graph is saved unless the edit
\* raised; the request records whether sync_node was suspended meanwhile
EditDone(op, args, r) ==
  /\ inflight' = [inflight EXCEPT !.edit = [pc |-> "done", op |-> op, args |-> args,
                                            ok |-> r.ok,
                                            during |-> inflight.sync.pc = "awaiting"]]
  /\ stored' = IF r.ok THEN [stored EXCEPT !["p1"] = save_graph(r.graph, now + 1)]
               ELSE stored
  /\ now' = now + 1
  /\ UNCHANGED <<graph_vars, queue_vars, retriever_vars, version_vars, db, indexed, hlast, disk>>

\* merge_graph_entities
MergeGraphEntities ==
  /\ inflight.edit.pc = "idle"
  /\ \E from_id \in EntityIds, into_id \in EntityIds :
       EditDone("merge_entities", [from_id |-> from_id, into_id |-> into_id],
                merge_entities(load_graph("p1"), from_id, into_id, now + 1))

\* delete_graph_entity
DeleteGraphEntity ==
  /\ inflight.edit.pc = "idle"
  /\ \E entity_id \in EntityIds :
       EditDone("delete_entity", [entity_id |-> entity_id],
                delete_entity(load_graph("p1"), entity_id, now + 1))

\* update_graph_entity
UpdateGraphEntity ==
  /\ inflight.edit.pc = "idle"
  /\ \E entity_id \in EntityIds, updates \in UpdatePayloads :
       EditDone("update_entity", [entity_id |-> entity_id, updates |-> updates],
                update_entity(load_graph("p1"), entity_id, updates, now + 1))

NextRace ==
  \/ SyncNodeLoad
  \/ SyncNodeSave
  \/ MergeGraphEntities
  \/ DeleteGraphEntity
  \/ UpdateGraphEntity

SpecRace == InitRace /\ [][NextRace]_vars

PriorityOrder(items) ==
  LET n == Len(items)
      place(i) == 1 + Cardinality({j \in 1..n : \/ items[j].score > items[i].score
                                                \/ /\ items[j].score = items[i].score
                                                   /\ j < i})
  IN [k \in 1..n |-> items[CHOOSE i \in 1..n : place(i) = k]]

\* the candidates of the retrieval as ranked items, in the order of taking
TakingOrder ==
  LET c == context.candidates
  IN PriorityOrder(ranked_items(
       RetrievalContext(c.nodes, c.knowledge, c.entity_hits \o c.entity_layers,
                        c.relation_hits \o c.relation_layers, 0),
       {c.entity_hits[i].id : i \in 1..Len(c.entity_hits)},
       c.relation_layers, c.entity_layers))

ItemCost(item) == estimate_tokens(item_text(item.kind, item.value))

\* the positions of R taken under a budget of M: an item is taken when the
\* total is below M and the item fits; with `closing`, an item that does
\* not fit ends the taking of its category
Selection(R, M, closing) ==
  LET before[i \in 1..(Len(R) + 1)] ==
        IF i = 1 THEN [tokens |-> 0, closed |-> {}]
        ELSE LET p == before[i - 1]
                 item == R[i - 1]
             IN IF p.tokens >= M \/ item.kind \in p.closed THEN p
                ELSE IF p.tokens + ItemCost(item) <= M
                THEN [p EXCEPT !.tokens = @ + ItemCost(item)]
                ELSE IF closing THEN [p EXCEPT !.closed = @ \cup {item.kind}]
                ELSE p
  IN {i \in 1..Len(R) : /\ before[i].tokens < M
                        /\ R[i].kind \notin before[i].closed
                        /\ before[i].tokens + ItemCost(R[i]) <= M}

\* the values of one kind at the positions taken, in the order of R
TakenOf(R, taken, kind) ==
  LET at == SelectSeq([i \in 1..Len(R) |-> i], LAMBDA i : i \in taken /\ R[i].kind = kind)
  IN [k \in 1..Len(at) |-> R[at[k]].value]

ReturnsSelection(closing) ==
  context.result # None =>
    LET R == TakingOrder
        taken == Selection(R, context.max_tokens, closing)
        r == context.result
    IN /\ r.relevant_nodes = TakenOf(R, taken, "node")
       /\ r.relevant_knowledge = TakenOf(R, taken, "knowledge")
       /\ r.relevant_entities = TakenOf(R, taken, "entity")
       /\ r.relevant_relations = TakenOf(R, taken, "relation")

\* C31 as stated: the truncation takes the items in non-increasing priority,
\* ties in original order; once an item of a category would exceed
\* max_tokens no further item of that category is added, and nothing is
\* added once the running total has reached max_tokens.
C31_StopsCategory == ReturnsSelection(TRUE)

\* C31 amended: the truncation takes the items in non-increasing priority,
\* ties in original order; an item that would exceed max_tokens is skipped
\* and later items of its category that still fit are added; nothing is
\* added once the running total has reached max_tokens.
C31_SkipsMisfit == ReturnsSelection(FALSE)

\* the long node did not fit, the short node ranked after it was added
C31_Witness ==
  /\ context.result # None
  /\ context.candidates.nodes = <<LongNode, ShortNode>>
  /\ context.result.relevant_nodes = <<ShortNode>>
  /\ context.result.token_count = context.max_tokens
  /\ context.candidates.entity_hits # <<>>
  /\ context.result.relevant_entities # <<>>

(***************************************************************************)
(* The token cost charged for a text                                       *)
(***************************************************************************)
\* the quarter of n rounded up and rounded down
CeilQuarter(n) == CHOOSE c \in 0..n : 4 * c >= n /\ 4 * (c - 1) < n

FloorQuarter(n) == CHOOSE c \in 0..n : 4 * c <= n /\ n < 4 * (c + 1)

\* max(1, ceil(n/4))
CeilCost(n) == IF CeilQuarter(n) < 1 THEN 1 ELSE CeilQuarter(n)

\* 0 for the empty text, else max(1, floor(n/4))
FloorCost(n) == IF n = 0 THEN 0 ELSE IF FloorQuarter(n) < 1 THEN 1 ELSE FloorQuarter(n)

\* the text lengths the estimate is examined for
TextLengths == 0..(4 * MaxTokens + 3)

RECURSIVE SumOver(_, _, _)
SumOver(Cost(_), kind, values) ==
  IF values = <<>> THEN 0
  ELSE Cost(Len(item_text(kind, Head(values)))) + SumOver(Cost, kind, Tail(values))

\* the estimate of every text is Cost of its length, and the token count of
\* a returned context is the sum of Cost over the texts of its items
Charges(Cost(_)) ==
  context.result # None =>
    LET r == context.result
    IN /\ r.token_count = SumOver(Cost, "node", r.relevant_nodes)
                             + SumOver(Cost, "knowledge", r.relevant_knowledge)
                             + SumOver(Cost, "entity", r.relevant_entities)
                             + SumOver(Cost, "relation", r.relevant_relations)
       /\ \A n \in TextLengths : estimate_tokens(Rep(n, "x")) = Cost(n)

\* C32 as stated: the token cost charged for each context item is
\* max(1, ceil(text_length/4)) of the item's text, for every text length
\* including 0 and lengths not divisible by 4.
C32_CostRoundsUp == Charges(CeilCost)

\* C32 amended: the token cost charged for each context item is
\* max(1, floor(text_length/4)) of the item's text, and the estimate of an
\* empty text is 0.
C32_CostRoundsDown == Charges(FloorCost)

\* a context with one node whose summary has 19 characters, charged 4
C32_Witness ==
  /\ context.result # None
  /\ context.result.relevant_nodes = <<TaggedNode>>
  /\ Len(node_summary(TaggedNode)) = 19
  /\ context.result.relevant_knowledge = <<>>
  /\ context.result.relevant_entities = <<>>
  /\ context.result.relevant_relations = <<>>
  /\ context.result.token_count = 4

(***************************************************************************)
(* The version storage of p1 step by step (version_storage.py under        *)
(* version_manager.py).  A call runs from one database statement to the    *)
(* next without other calls in between; the process may stop between any   *)
(* two steps, and inside save_snapshot while the temporary file is being   *)
(* written or before it is renamed.  Compressed files are left out.        *)
(***************************************************************************)
StorageCalls == {"c1", "c2"}

MaxStorageCalls == 3

\* what a snapshot file or an index row holds: the version, the type and the
\* call that wrote it ("c0": a call that ended before)
SnapshotOf(version, snapshot_type, by) ==
  [version |-> version, snapshot_type |-> snapshot_type, by |-> by]

Without(f, v) == [w \in DOMAIN f \ {v} |-> f[w]]

\* temp_path.write_text, up to the point the process has reached
write_temp(d, snapshot, written) ==
  [d EXCEPT !.tmp = (snapshot.version :> [snapshot |-> snapshot, written |-> written]) @@ @]

\* temp_path.replace(path)
replace_temp(d, version) ==
  [d EXCEPT !.files = (version :> d.tmp[version]) @@ @, !.tmp = Without(@, version)]

\* the upsert of save_snapshot, committed
upsert_row(d, snapshot) == [d EXCEPT !.rows = (snapshot.version :> snapshot) @@ @]

\* path.unlink() of delete_snapshot when the file exists
unlink_file(d, version) == [d EXCEPT !.files = Without(@, version)]

\* the delete statement of delete_snapshot, committed
delete_row(d, version) == [d EXCEPT !.rows = Without(@, version)]

\* _get_latest_version on the rows list_snapshots returned
latest_version(rows) == IF DOMAIN rows = {} THEN 0 ELSE MaxOf(DOMAIN rows)

\* the versions in increasing order
RECURSIVE ascending(_)
ascending(versions) ==
  IF versions = {} THEN <<>>
  ELSE LET v == CHOOSE x \in versions : \A y \in versions : x <= y
       IN <<v>> \o ascending(versions \ {v})

\* to_delete of _cleanup_auto_snapshots on the rows list_snapshots returned
to_delete(rows, cfg) ==
  LET autos == ascending({v \in DOMAIN rows : rows[v].snapshot_type = "auto"})
  IN IF Len(autos) <= cfg.max_auto_snapshots THEN <<>>
     ELSE SubSeq(autos, 1, Len(autos) - cfg.max_auto_snapshots)

Disk(tmp, files, rows) == [tmp |-> tmp, files |-> files, rows |-> rows]

StoredFile(version, snapshot_type) ==
  version :> [snapshot |-> SnapshotOf(version, snapshot_type, "c0"), written |-> "complete"]

StoredRow(version, snapshot_type) == version :> SnapshotOf(version, snapshot_type, "c0")

\* the storages left by earlier calls that ran to their end
InitialDisks ==
  {Disk(<<>>, <<>>, <<>>),
   Disk(<<>>, StoredFile(1, "auto"), StoredRow(1, "auto")),
   Disk(<<>>, StoredFile(1, "milestone") @@ StoredFile(2, "auto"),
        StoredRow(1, "milestone") @@ StoredRow(2, "auto"))}

Idle == [pc |-> "idle"]

InitStorage ==
  /\ stored = [p \in Projects |-> None]
  /\ now = 0
  /\ mem = None
  /\ last = NoOp
  /\ config = SyncConfig("debounced", 5, 10, 60)
  /\ pending_updates = <<>>
  /\ pending_old_nodes = <<>>
  /\ last_update_time = <<>>
  /\ run = None
  /\ ret = None
  /\ enqueued = {}
  /\ context = None
  /\ snapshots = [p \in Projects |-> <<>>]
  /\ versioning_config = VersioningConfig(300, 2, 1)
  /\ assigned = [p \in Projects |-> {}]
  /\ vlast = NoOp
  /\ loop = "sleeping"
  /\ db = None
  /\ indexed = {}
  /\ inflight = [calls |-> [c \in StorageCalls |-> Idle], started |-> 0, crashed |-> FALSE]
  /\ hlast = NoOp
  /\ disk \in InitialDisks

StorageStep(c, call, d) ==
  /\ inflight' = [inflight EXCEPT !.calls[c] = call]
  /\ disk' = d
  /\ UNCHANGED <<stored, now, graph_vars, queue_vars, retriever_vars, version_vars, db, indexed, hlast>>

\* create_snapshot is called and its list_snapshots statement runs
CreateSnapshotGetLatest(c) ==
  /\ ~inflight.crashed
  /\ inflight.calls[c].pc = "idle"
  /\ inflight.started < MaxStorageCalls
  /\ \E snapshot_type \in {"auto", "manual"} :
       /\ inflight' = [inflight EXCEPT
                         !.calls[c] = [pc |-> "save", op |-> "create_snapshot",
                                       snapshot |-> SnapshotOf(latest_version(disk.rows) + 1,
                                                               snapshot_type, c)],
                         !.started = @ + 1]
       /\ UNCHANGED <<stored, now, graph_vars, queue_vars, retriever_vars, version_vars, db, indexed, hlast, disk>>

\* save_snapshot up to its database statement: the temporary file is written
\* and renamed
CreateSnapshotSave(c) ==
  /\ ~inflight.crashed
  /\ inflight.calls[c].pc = "save"
  /\ LET call == inflight.calls[c]
     IN StorageStep(c, [call EXCEPT !.pc = "insert"],
                    replace_temp(write_temp(disk, call.snapshot, "complete"),
                                 call.snapshot.version))

\* the upsert of save_snapshot commits
CreateSnapshotInsert(c) ==
  /\ ~inflight.crashed
  /\ inflight.calls[c].pc = "insert"
  /\ LET call == inflight.calls[c]
     IN StorageStep(c, [call EXCEPT !.pc = "cleanup"], upsert_row(disk, call.snapshot))

\* the list_snapshots statement of _cleanup_auto_snapshots runs
CreateSnapshotCleanup(c) ==
  /\ ~inflight.crashed
  /\ inflight.calls[c].pc = "cleanup"
  /\ LET targets == to_delete(disk.rows, versioning_config)
     IN StorageStep(c,
                    IF targets = <<>> THEN Idle
                    ELSE [pc |-> "unlink", op |-> "create_snapshot", targets |-> targets],
                    disk)

\* delete_version is called and its list_snapshots statement runs
DeleteVersionList(c) ==
  /\ ~inflight.crashed
  /\ inflight.calls[c].pc = "idle"
  /\ inflight.started < MaxStorageCalls
  /\ \E version \in DOMAIN disk.rows :
       /\ inflight' = [inflight EXCEPT
                         !.calls[c] = IF disk.rows[version].snapshot_type = "milestone" THEN Idle
                                      ELSE [pc |-> "unlink", op |-> "delete_version",
                                            targets |-> <<version>>],
                         !.started = @ + 1]
       /\ UNCHANGED <<stored, now, graph_vars, queue_vars, retriever_vars, version_vars, db, indexed, hlast, disk>>

\* delete_snapshot up to its database statement: the file is removed
DeleteSnapshotUnlink(c) ==
  /\ ~inflight.crashed
  /\ inflight.calls[c].pc = "unlink"
  /\ LET call == inflight.calls[c]
     IN StorageStep(c, [call EXCEPT !.pc = "delete_row"], unlink_file(disk, Head(call.targets)))

\* the delete statement of delete_snapshot commits
DeleteSnapshotRow(c) ==
  /\ ~inflight.crashed
  /\ inflight.calls[c].pc = "delete_row"
  /\ LET call == inflight.calls[c]
     IN StorageStep(c,
                    IF Tail(call.targets) = <<>> THEN Idle
                    ELSE [call EXCEPT !.pc = "unlink", !.targets = Tail(@)],
                    delete_row(disk, Head(call.targets)))

Stopped == [inflight EXCEPT !.calls = [c \in StorageCalls |-> [pc |-> "stopped"]],
                            !.crashed = TRUE]

\* the process stops between two steps of the calls in flight
Crash ==
  /\ ~inflight.crashed
  /\ \E c \in StorageCalls : inflight.calls[c].pc # "idle"
  /\ inflight' = Stopped
  /\ UNCHANGED <<stored, now, graph_vars, queue_vars, retriever_vars, version_vars, db, indexed, hlast, disk>>

\* the process stops inside save_snapshot: while the temporary file is being
\* written, or once it is written and not yet renamed
CrashInSave(c) ==
  /\ ~inflight.crashed
  /\ inflight.calls[c].pc = "save"
  /\ \E written \in {"partial", "complete"} :
       disk' = write_temp(disk, inflight.calls[c].snapshot, written)
  /\ inflight' = Stopped
  /\ UNCHANGED <<stored, now, graph_vars, queue_vars, retriever_vars, version_vars, db, indexed, hlast>>

NextStorage ==
  \/ \E c \in StorageCalls : CreateSnapshotGetLatest(c)
  \/ \E c \in StorageCalls : CreateSnapshotSave(c)
  \/ \E c \in StorageCalls : CreateSnapshotInsert(c)
  \/ \E c \in StorageCalls : CreateSnapshotCleanup(c)
  \/ \E c \in StorageCalls : DeleteVersionList(c)
  \/ \E c \in StorageCalls : DeleteSnapshotUnlink(c)
  \/ \E c \in StorageCalls : DeleteSnapshotRow(c)
  \/ \E c \in StorageCalls : CrashInSave(c)
  \/ Crash

SpecStorage == InitStorage /\ [][NextStorage]_vars

\* C33: snapshot persistence is crash-consistent: when the process has
\* stopped at any step of create_snapshot or delete_snapshot, no partially
\* written record is at a snapshot's final location, every version listed in
\* the index has a complete record, and every complete record at a final
\* location is listed in the index.
C33_CrashConsistent ==
  inflight.crashed =>
    /\ \A v \in DOMAIN disk.files : disk.files[v].written = "complete"
    /\ \A v \in DOMAIN disk.rows : v \in DOMAIN disk.files
    /\ \A v \in DOMAIN disk.files : v \in DOMAIN disk.rows

\* C38: two create_snapshot calls for the same project that overlap in time
\* are assigned distinct versions, so neither overwrites the file or the
\* index row written by the other.
C38_DistinctVersions ==
  \A c, d \in StorageCalls :
    LET first == inflight.calls[c]
        second == inflight.calls[d]
    IN (/\ c # d
        /\ first.pc \in {"save", "insert"}
        /\ second.pc \in {"save", "insert"})
         => /\ first.snapshot.version # second.snapshot.version
            /\ \A v \in DOMAIN disk.files :
                 disk.files[v].snapshot.by = c => v # second.snapshot.version
            /\ \A v \in DOMAIN disk.rows :
                 disk.rows[v].by = c => v # second.snapshot.version

(***************************************************************************)
(* drafting_node and reverse_sync_node of the workflows (graph.py), one    *)
(* oracle call per step.  The oracle is an input: each llm.ainvoke returns *)
(* its structured answer or raises.                                        *)
(***************************************************************************)
AgentState(current_project, modified_node, sync_result, error) ==
  [current_project |-> current_project, modified_node |-> modified_node,
   sync_result |-> sync_result, error |-> error]

WorkflowNode(id, timeline_order) == [id |-> id, timeline_order |-> timeline_order]

WorkflowProject(nodes, characters) == [nodes |-> nodes, characters |-> characters]

SyncAnalysisResult(new_characters, timeline_updates) ==
  [new_characters |-> new_characters, timeline_updates |-> timeline_updates]

\* a range(1, 5): one attempt more
attempts_up_to_four == 1..4

\* range(1, 4) of the retry loops
attempts == 1..3

\* apply_sync_node
apply_sync_node(state) ==
  IF state.current_project = None \/ state.modified_node = None \/ state.sync_result = None
  THEN [state EXCEPT !.error = Text("Apply sync failed: missing inputs")]
  ELSE
    LET project == state.current_project
        modified_node == state.modified_node
        analysis == state.sync_result
        placed == IF \E i \in 1..Len(project.nodes) : project.nodes[i].id = modified_node.id
                  THEN [i \in 1..Len(project.nodes) |->
                          IF project.nodes[i].id = modified_node.id THEN modified_node
                          ELSE project.nodes[i]]
                  ELSE Append(project.nodes, modified_node)
        \* the dict comprehension keeps the last update of a node
        timeline_of(id) ==
          LET hits == SelectSeq(analysis.timeline_updates, LAMBDA u : u.node_id = id)
          IN IF hits = <<>> THEN None ELSE hits[Len(hits)]
        timed == [i \in 1..Len(placed) |->
                    IF timeline_of(placed[i].id) = None THEN placed[i]
                    ELSE [placed[i] EXCEPT !.timeline_order =
                            timeline_of(placed[i].id).new_timeline_order]]
        added == SelectSeq(analysis.new_characters,
                           LAMBDA c : \A i \in 1..Len(project.characters) : project.characters[i] # c)
    IN [state EXCEPT !.current_project = WorkflowProject(timed, project.characters \o added),
                     !.error = None]

\* the checks a node makes before its retry loop: the error it ends with,
\* None when the loop is entered
entry_error(node, api_key, state) ==
  IF ~api_key THEN Text("OPENAI_API_KEY is not configured")
  ELSE IF node = "reverse_sync_node"
          /\ (state.current_project = None \/ state.modified_node = None)
  THEN Text("Sync failed: missing project or modified node")
  ELSE None

\* the outer except clause of a node
failed_node(node, state, error) ==
  IF node = "drafting_node" THEN [state EXCEPT !.current_project = None, !.error = error]
  ELSE [state EXCEPT !.sync_result = None, !.error = error]

\* the LLMGenerationError raised after the loop
generation_error(node) ==
  IF node = "drafting_node" THEN Text("LLM drafting failed after 3 attempts")
  ELSE Text("LLM sync analysis failed after 3 attempts")

\* the try block of one attempt after llm.ainvoke returned result
succeeded_attempt(node, state, result) ==
  IF node = "drafting_node"
  THEN [state EXCEPT !.current_project = result, !.error = None]
  ELSE apply_sync_node([state EXCEPT !.sync_result = result, !.error = None])

\* what the oracle answers when it answers
DraftedProject == WorkflowProject(<<WorkflowNode("n1", 1)>>, <<"c1">>)

Analysis == SyncAnalysisResult(<<"c1", "c2">>, <<[node_id |-> "n1", new_timeline_order |-> 2]>>)

\* the states a node is entered with: retrieval_node may have left an error
EntryStates ==
  {AgentState(project, modified_node, None, error) :
     project \in {None, WorkflowProject(<<WorkflowNode("n1", 1)>>, <<"c1">>)},
     modified_node \in {None, WorkflowNode("n1", 3), WorkflowNode("n2", 3)},
     error \in {None, Text("retrieval failed")}}

InitNodes ==
  /\ stored = [p \in Projects |-> None]
  /\ now = 0
  /\ mem = None
  /\ last = NoOp
  /\ config = SyncConfig("debounced", 5, 10, 60)
  /\ pending_updates = <<>>
  /\ pending_old_nodes = <<>>
  /\ last_update_time = <<>>
  /\ run = None
  /\ ret = None
  /\ enqueued = {}
  /\ context = None
  /\ snapshots = [p \in Projects |-> <<>>]
  /\ versioning_config = None
  /\ assigned = [p \in Projects |-> {}]
  /\ vlast = NoOp
  /\ loop = "sleeping"
  /\ db = None
  /\ indexed = {}
  /\ \E node \in {"drafting_node", "reverse_sync_node"}, api_key \in BOOLEAN,
        state \in EntryStates :
       inflight = [node |-> node, api_key |-> api_key, state |-> state, pc |-> "entered",
                   attempt |-> 0, outcomes |-> <<>>]
  /\ hlast = NoOp
  /\ disk = None

NodeStep(f) ==
  /\ inflight' = f
  /\ UNCHANGED <<stored, now, graph_vars, queue_vars, retriever_vars, version_vars, db, indexed, hlast, disk>>

\* the node runs up to its first llm.ainvoke, or returns with an error
EnterNode ==
  /\ inflight.pc = "entered"
  /\ LET error == entry_error(inflight.node, inflight.api_key, inflight.state)
     IN IF error # None
        THEN NodeStep([inflight EXCEPT !.pc = "returned",
                                       !.state = failed_node(inflight.node, @, error)])
        ELSE NodeStep([inflight EXCEPT !.pc = "awaiting", !.attempt = 1])

\* the awaited llm.ainvoke returns its answer: the node returns
LlmAnswers ==
  /\ inflight.pc = "awaiting"
  /\ NodeStep([inflight EXCEPT
                 !.pc = "returned",
                 !.outcomes = Append(@, "answered"),
                 !.state = succeeded_attempt(inflight.node, @,
                                             IF inflight.node = "drafting_node"
                                             THEN DraftedProject ELSE Analysis)])

\* the awaited llm.ainvoke raises: the next attempt, or the node returns
\* with the generation error
LlmRaises ==
  /\ inflight.pc = "awaiting"
  /\ IF inflight.attempt + 1 \in attempts
     THEN NodeStep([inflight EXCEPT !.attempt = @ + 1, !.outcomes = Append(@, "raised")])
     ELSE NodeStep([inflight EXCEPT
                      !.pc = "returned",
                      !.outcomes = Append(@, "raised"),
                      !.state = failed_node(inflight.node, @, generation_error(inflight.node))])

NextNodes ==
  \/ EnterNode
  \/ LlmAnswers
  \/ LlmRaises

SpecNodes == InitNodes /\ [][NextNodes]_vars

\* C34: drafting_node and reverse_sync_node call the oracle at most 3 times
\* per invocation, stop at the first call that succeeds, clearing the error,
\* and end with the generation failure only after 3 consecutive failed
\* calls (and always then).
C34_ThreeAttempts ==
  LET calls == inflight.outcomes
      n == Len(calls)
  IN /\ n <= 3
     /\ \A i \in 1..n : i < n => calls[i] = "raised"
     /\ (n > 0 /\ calls[n] = "answered") =>
          /\ inflight.pc = "returned"
          /\ inflight.state.error = None
     /\ inflight.pc = "returned" =>
          (inflight.state.error = generation_error(inflight.node)
             <=> calls = <<"raised", "raised", "raised">>)

\* reverse_sync_node was entered with an error in the state, its first two
\* calls raised, the third answered and the node returned without error
C34_Witness ==
  /\ inflight.node = "reverse_sync_node"
  /\ inflight.pc = "returned"
  /\ inflight.outcomes = <<"raised", "raised", "answered">>
  /\ inflight.state.error = None
  /\ inflight.state.current_project.nodes = <<WorkflowNode("n1", 2), WorkflowNode("n2", 3)>>

(***************************************************************************)
(* The pending edits under flush and under a raising process_ready         *)
(***************************************************************************)
\* C35: no pending edit is lost by flush: a flush never removes from the
\* pending maps a node version it did not reconcile, whatever enqueue calls
\* run while it is suspended: every node version the maps hold for the
\* project when the flush pops it is among the versions the flush passed to
\* sync_node_update.
C35_FlushKeepsUnreconciled ==
  [][(/\ run # None
      /\ run.kind = "flush"
      /\ ret' # None
      /\ ~ret'.raised)
       => LET pending == dict_get(pending_updates, run.active, <<>>)
          IN \A i \in 1..Len(pending) :
               \E k \in 1..Len(ret'.results) :
                 /\ ret'.results[k].node_id = pending[i].k
                 /\ ret'.results[k].node = pending[i].v]_vars

\* C36: process_ready removes a node from the pending maps only if its
\* reconciliation completed and the resulting graph was persisted by
\* save_graph: at the end of a call, raising or not, every node that was
\* pending when the call took the lock and is pending no more has been
\* reconciled by the call, and the project's graph saved afterwards.
C36_RemovedOnlyIfPersisted ==
  (ret # None /\ ret.call = "process_ready") =>
    \A p \in Projects :
      LET before == dict_get(ret.start.pu, p, <<>>)
      IN \A i \in 1..Len(before) :
           Absent(p, before[i].k) =>
             \E a \in AccessesOf(ret, "sync", p), b \in AccessesOf(ret, "save", p) :
               /\ ret.log[a].node_id = before[i].k
               /\ a < b

(***************************************************************************)
(* The result of sync_node_update against the committed graph              *)
(***************************************************************************)
\* C39: after sync_node_update returns with graph_updated = true the result
\* agrees with the committed graph: every entity id listed in
\* removed_entities is absent from the graph and every entity listed in
\* new_entities is present in it.
C39_ResultAgreesWithGraph ==
  [][(last'.op = "sync_node_update" /\ last'.ok /\ last'.result.graph_updated) =>
       /\ Range(last'.result.removed_entities) \cap EntityIdsOf(mem') = {}
       /\ \A i \in 1..Len(last'.result.new_entities) :
            \E k \in 1..Len(mem'.entities) :
              mem'.entities[k] = last'.result.new_entities[i]]_vars

(***************************************************************************)
(* The background tasks of sync_node on the Sync Queue, and a restore      *)
(***************************************************************************)
\* the background tasks of the model, one per sync_node request
Tasks == {"t1", "t2"}

\* the clock runs to this time at least, and on while a task sleeps
MaxTaskTime == 1

TaskConfigs == {SyncConfig(m, 1, 2, 1) : m \in {"debounced", "batch"}}

\* the edits of the tasks: the edits of one project
TaskEdits == {edit \in Edits : edit[1] = "p1"}

\* sync_graph_background, lines 241-245: the delay of its sleep
delay_of(cfg) ==
  IF cfg.graph_sync_mode = "debounced" THEN cfg.debounce_seconds
  ELSE cfg.batch_timeout_seconds

Task(pc, edit, since) == [pc |-> pc, edit |-> edit, since |-> since]

\* sync_graph_background after a process_ready call of its, Q being the queue
\* the call left: the call is suspended at its await, or it raised (the task
\* ends in its except clause), or the first call returned no result (the task
\* sleeps), or the task goes on to its notifications and ends
after_process_ready(task, Q, t) ==
  IF Q.run # None
  THEN [task EXCEPT !.pc = IF task.pc \in {"first", "in_first"} THEN "in_first"
                           ELSE "in_second"]
  ELSE IF Q.ret.raised THEN [task EXCEPT !.pc = "failed"]
  ELSE IF task.pc \in {"first", "in_first"} /\ Q.ret.results = <<>>
       THEN [task EXCEPT !.pc = "sleeping", !.since = t]
  ELSE [task EXCEPT !.pc = "done"]

\* the queue and the graph store become Q
Assigns(Q) ==
  /\ pending_updates' = Q.pu
  /\ pending_old_nodes' = Q.po
  /\ last_update_time' = Q.lt
  /\ stored' = Q.stored
  /\ run' = Q.run
  /\ ret' = None

task_frame == <<mem, last, config, retriever_vars, version_vars, db, indexed, disk>>

InitTasks ==
  /\ stored = [p \in Projects |-> None]
  /\ now = 0
  /\ mem = None
  /\ last = NoOp
  /\ config \in TaskConfigs
  /\ pending_updates = <<>>
  /\ pending_old_nodes = <<>>
  /\ last_update_time = <<>>
  /\ run = None
  /\ ret = None
  /\ enqueued = {}
  /\ context = None
  /\ snapshots = [p \in Projects |-> <<>>]
  /\ versioning_config = None
  /\ assigned = [p \in Projects |-> {}]
  /\ vlast = NoOp
  /\ loop = "sleeping"
  /\ db = None
  /\ indexed = {}
  /\ inflight = [k \in Tasks |-> Task("start", <<>>, 0)]
  /\ hlast = NoOp
  /\ disk = None

\* sync_graph_background, line 234: the task of a new edit enqueues it
TaskEnqueue(k) ==
  /\ inflight[k].pc = "start"
  /\ \E edit \in TaskEdits \ enqueued :
       LET node == StoryNode(edit[2], <<"t">>, edit[3])
           old_node == IF edit[4] THEN StoryNode(edit[2], <<"t">>, <<"a">>) ELSE None
       IN /\ enqueued' = enqueued \cup {edit}
          /\ inflight' = [inflight EXCEPT ![k] = Task("first", edit, now)]
          /\ pending_updates' = enqueue_updates(pending_updates, edit[1], node)
          /\ pending_old_nodes' = enqueue_old_nodes(pending_old_nodes, edit[1], node, old_node)
          /\ last_update_time' = enqueue_times(last_update_time, edit[1], node, now)
  /\ hlast' = NoOp
  /\ ret' = None
  /\ UNCHANGED <<stored, run, now, task_frame>>

\* sync_graph_background, lines 239 and 247: the task calls process_ready for
\* its project and the call takes the lock
TaskProcessReady(k) ==
  /\ inflight[k].pc \in {"first", "second"}
  /\ run = None
  /\ LET called(Q) ==
           /\ Assigns(Q)
           /\ inflight' = [inflight EXCEPT ![k] = after_process_ready(inflight[k], Q, now)]
     IN called(process_ready(TheQueue, config, inflight[k].edit[1], now))
  /\ UNCHANGED <<enqueued, hlast, now, task_frame>>

\* the reconciliation awaited by the task's process_ready call completes
TaskResume(k) ==
  /\ inflight[k].pc \in {"in_first", "in_second"}
  /\ run # None
  /\ LET g == run.graph
         eu == <<fresh_id(EntityIdPool, EntityIdsOf(g))>>
         resumed(Q) ==
           /\ Assigns(Q)
           /\ inflight' = [inflight EXCEPT ![k] = after_process_ready(inflight[k], Q, now)]
     IN \E answer \in QueueAnswers, index_ok \in BOOLEAN, has_api_key \in BOOLEAN :
          /\ ~index_ok => answer = OracleFail /\ has_api_key
          /\ ~has_api_key => answer = ExtractionResult(<<>>, <<>>)
          /\ answer # OracleFail => (Len(answer.new_entities) > 0 => eu # <<"">>)
          /\ \E order \in Orders(mention_removed(run.cur.old_node, run.cur.node, g)) :
               resumed(resume(TheQueue, config,
                              sync_node_update(run.active, run.cur.old_node, run.cur.node, g, index_ok, has_api_key, answer, eu, <<>>, order, now),
                              now))
  /\ UNCHANGED <<enqueued, hlast, now, task_frame>>

\* sync_graph_background, line 246: the sleep of the task is over
TaskWake(k) ==
  /\ inflight[k].pc = "sleeping"
  /\ now - inflight[k].since >= delay_of(config)
  /\ inflight' = [inflight EXCEPT ![k].pc = "second"]
  /\ ret' = None
  /\ UNCHANGED <<stored, pending_updates, pending_old_nodes, last_update_time, run, enqueued, hlast, now, task_frame>>

\* restore_project_version, main.py:791-811: the graph of the snapshot (taken
\* of the project before its first reconciliation) is saved by save_graph
RestoreProjectVersion ==
  /\ hlast.op = "none"
  /\ \E project_id \in {edit[1] : edit \in TaskEdits} :
       LET restored_graph == empty_graph(project_id, 0)
       IN /\ stored' = [stored EXCEPT ![project_id] = save_graph(restored_graph, now)]
          /\ hlast' = [op |-> "restore_project_version", ok |-> TRUE,
                       args |-> [project_id |-> project_id],
                       result |-> restored_graph, error |-> ""]
  /\ ret' = None
  /\ UNCHANGED <<pending_updates, pending_old_nodes, last_update_time, run, enqueued, inflight, now, task_frame>>

\* time passes
TaskTick ==
  /\ \/ now < MaxTaskTime
     \/ \E k \in Tasks : inflight[k].pc = "sleeping"
                         /\ now - inflight[k].since < delay_of(config)
  /\ now' = now + 1
  /\ ret' = None
  /\ UNCHANGED <<stored, pending_updates, pending_old_nodes, last_update_time, run, enqueued, inflight, hlast, task_frame>>

NextTasks ==
  \/ \E k \in Tasks : TaskEnqueue(k)
  \/ \E k \in Tasks : TaskProcessReady(k)
  \/ \E k \in Tasks : TaskResume(k)
  \/ \E k \in Tasks : TaskWake(k)
  \/ RestoreProjectVersion
  \/ TaskTick

SpecTasks == InitTasks /\ [][NextTasks]_vars

\* a task's process_ready call can take the lock (the step always moves the
\* task on, so this is when TaskProcessReady(k) is enabled)
CanProcessReady(k) == inflight[k].pc \in {"first", "second"} /\ run = None

\* the reconciliation a task's call awaits can complete (it always can, and
\* moves the call on, so this is when TaskResume(k) is enabled)
CanResume(k) == inflight[k].pc \in {"in_first", "in_second"} /\ run # None

\* the event loop runs every task that can take a step, the awaited
\* reconciliations complete and the timers elapse: weak fairness of every
\* step of a task and of the clock, the fairness of TaskProcessReady and
\* TaskResume written out with their enabling conditions
FairTasks ==
  /\ SpecTasks
  /\ WF_vars(TaskTick)
  /\ \A k \in Tasks :
       /\ WF_vars(TaskEnqueue(k))
       /\ WF_vars(TaskWake(k))
       /\ ([]<>~CanProcessReady(k)) \/ ([]<><<TaskProcessReady(k)>>_vars)
       /\ ([]<>~CanResume(k)) \/ ([]<><<TaskResume(k)>>_vars)

TaskFailed == \E k \in Tasks : inflight[k].pc = "failed"

\* C37: in debounced or batch graph mode every node edit enqueued by a
\* background task of sync_node is eventually passed to sync_node_update and
\* removed from the pending maps (process_ready pops a node as it passes it
\* to sync_node_update), whatever edits overlap, as long as the tasks keep
\* running, the timers elapse and no reconciliation raises.
C37_EveryEditReconciled ==
  \A key \in MapKeys :
    (Lookup(pending_updates, key[1], key[2]) # <<>>)
      ~> (Absent(key[1], key[2]) \/ TaskFailed)

\* C40: restore replaces the project's graph wholesale: once
\* restore_project_version has saved the snapshot's graph, the persisted
\* graph has the snapshot's entities and relations (save_graph stamps
\* last_updated) until a new edit is submitted, whatever
\* edits were pending in the queue and whatever reconciliation was in flight
\* before the restore.
C40_RestoredGraphStays ==
  hlast.op = "restore_project_version" =>
    /\ stored[hlast.args.project_id] # None
    /\ stored[hlast.args.project_id].entities = hlast.result.entities
    /\ stored[hlast.args.project_id].relations = hlast.result.relations

====
